---- MODULE Spec2Model ----
(***************************************************************************)
(* graph_lib: the OSPF area engine (LSDB acceptance, topology rebuild,     *)
(* SPF recomputation), the Graph container and Dijkstra's algorithm.       *)
(*                                                                         *)
(* Representation.  A Python dict whose iteration order cannot change a    *)
(* result is a TLA+ function (Graph._nodes, Graph._adjacency_list,         *)
(* distances, predecessors, routing_table, lsdb).  Optional[X] is a        *)
(* sequence of length 0 (None) or 1.  A raised exception is the string     *)
(* naming it in the variable result.                                       *)
(***************************************************************************)
EXTENDS Integers, Sequences, FiniteSets, TLC

VARIABLES
    lsdb,             \* OSPFArea.lsdb: key -> lsa
    topology_graph,   \* OSPFArea.topology_graph: <<>> (None) or <<graph>>
    routing_table,    \* the content of the dict OSPFArea.routing_table names
    op,               \* the last public call made on the area
    arg,              \* its LSA argument: <<>> or <<lsa>>
    result,           \* what it returned ("True", "False", "None") or raised
    calls,            \* the internal calls it made, in order
    pc,               \* position of the writer inside a step-wise call
    todo,             \* recalculate_spf: router nodes the for loop has left
    new_routing_table,\* recalculate_spf: its local table under construction
    graphs_seen,      \* every value topology_graph has held (None included)
    readerRef,        \* the table object a reader holds: "none", "current", "old"
    readerObj,        \* the content of that object now
    observed,         \* the reader's last read: <<>> or <<table content>>
    graph,            \* a Graph instance its caller holds
    lsa_obj,          \* an LSA object its caller holds: <<>> or <<lsa>>
    router,           \* an OSPFRouter its caller holds: <<>> or <<router>>
    same_object       \* the LSDB keys k with "lsdb[k] is lsa_obj"

areaVars == <<lsdb, topology_graph, routing_table>>
callVars == <<op, arg, result, calls>>
stepVars == <<pc, todo, new_routing_table, graphs_seen>>
readerVars == <<readerRef, readerObj, observed>>
libVars == <<graph, lsa_obj, router, same_object>>
vars == <<lsdb, topology_graph, routing_table, op, arg, result, calls,
          pc, todo, new_routing_table, graphs_seen,
          readerRef, readerObj, observed, graph, lsa_obj, router,
          same_object>>

-----------------------------------------------------------------------------
(* Bounds and program constants *)

MaxSeq == 1          \* sequence numbers offered: 0..MaxSeq
AgeYoung == 10       \* sample ages below LSMaxAge
AgeOld == 20
ChecksumB == 1       \* a checksum different from the default 0
MetricA == 10        \* sample link metrics (interface costs)
MetricB == 5
MaxEdges == 3        \* edges of a hand-built topology graph
WeightA == 1         \* sample non-zero edge weights of hand-built graphs
WeightB == 2
MaxLinks == 3        \* links / attached routers of an LSA under construction
StaleLength == 99    \* a length value a caller passes to a constructor

LSMaxAge == 3600

None == <<>>
Some(x) == <<x>>

NoNode == "<None>"   \* Python None where a node identifier is expected

EmptyDict == [k \in {} |-> 0]

-----------------------------------------------------------------------------
(* graph_lib/graph.py: Graph *)

\* The attributes a Graph instance has: what __init__ sets and what the class
\* defines.  Any other attribute access raises AttributeError.
GraphAttributes ==
    {"_nodes", "_adjacency_list", "add_node", "get_node_data", "add_edge",
     "get_edge_weight", "neighbors", "get_all_nodes", "__contains__",
     "__len__", "get_nodes_count", "get_edges_count"}

\* _nodes, _adjacency_list, and the order in which each node's adjacency
\* dict received its keys (a dict iterates in insertion order)
Graph == [nodes |-> EmptyDict, adj |-> EmptyDict, keys |-> EmptyDict]

Contains(g, node_id) == node_id \in DOMAIN g.nodes

\* __len__ / get_nodes_count
GraphLen(g) == Cardinality(DOMAIN g.nodes)

\* add_node without its test
add_node_raises_Never(g, node_id) == FALSE

\* add_node raises ValueError exactly when the node exists
add_node_raises(g, node_id) == node_id \in DOMAIN g.nodes

\* add_node that binds _nodes to a new dict holding the one node
add_node_NewNodesDict(g, node_id, data) ==
    [nodes |-> [n \in {node_id} |-> data],
     adj   |-> [n \in DOMAIN g.adj \cup {node_id} |->
                    IF n = node_id THEN EmptyDict ELSE g.adj[n]],
     keys  |-> [n \in DOMAIN g.keys \cup {node_id} |->
                    IF n = node_id THEN <<>> ELSE g.keys[n]]]

\* "self._nodes[node_id] = data; self._adjacency_list[node_id] = {}"
add_node(g, node_id, data) ==
    [nodes |-> [n \in DOMAIN g.nodes \cup {node_id} |->
                    IF n = node_id THEN data ELSE g.nodes[n]],
     adj   |-> [n \in DOMAIN g.adj \cup {node_id} |->
                    IF n = node_id THEN EmptyDict ELSE g.adj[n]],
     keys  |-> [n \in DOMAIN g.keys \cup {node_id} |->
                    IF n = node_id THEN <<>> ELSE g.keys[n]]]

\* the data of a node created without data (add_edge's implicit nodes)
NoData == [type |-> "<None>"]

Truthy(data) == data # NoData

get_node_data(g, node_id) == g.nodes[node_id]

\* add_edge that starts u's adjacency dict anew
add_edge_FreshDict(g, u, v, weight) ==
    LET g1 == IF u \notin DOMAIN g.nodes THEN add_node(g, u, NoData) ELSE g
        g2 == IF v \notin DOMAIN g1.nodes THEN add_node(g1, v, NoData) ELSE g1
    IN [g2 EXCEPT !.adj[u] = [n \in {v} |-> weight], !.keys[u] = <<v>>]

add_edge(g, u, v, weight) ==
    LET g1 == IF u \notin DOMAIN g.nodes THEN add_node(g, u, NoData) ELSE g
        g2 == IF v \notin DOMAIN g1.nodes THEN add_node(g1, v, NoData) ELSE g1
    IN [g2 EXCEPT !.adj[u] =
            [n \in DOMAIN g2.adj[u] \cup {v} |->
                IF n = v THEN weight ELSE g2.adj[u][n]],
                  !.keys[u] =
            IF v \in DOMAIN g2.adj[u] THEN @ ELSE Append(@, v)]

HasEdge(g, u, v) == u \in DOMAIN g.adj /\ v \in DOMAIN g.adj[u]

\* get_edge_weight: only used where the edge exists (None otherwise)
get_edge_weight(g, u, v) == g.adj[u][v]

neighbors(g, node_id) == DOMAIN g.adj[node_id]

get_all_nodes(g) == DOMAIN g.nodes

-----------------------------------------------------------------------------
(* graph_lib/ospf.py: advertisements *)

RouterLSALink(link_id, link_data, link_type, metric) ==
    [link_id |-> link_id, link_data |-> link_data, link_type |-> link_type,
     metric |-> metric]

\* RouterLSA.__post_init__ fixes ls_type; link_state_id defaults to the
\* advertising router.
RouterLSA(adv, seq, age, cks, links) ==
    [kind |-> "RouterLSA", ls_type |-> "ROUTER_LSA",
     link_state_id |-> adv, advertising_router |-> adv,
     ls_sequence_number |-> seq, ls_age |-> age, ls_checksum |-> cks,
     is_abr |-> FALSE, is_asbr |-> FALSE,
     links |-> links, network_mask |-> "", attached_routers |-> <<>>]

\* NetworkLSA.__post_init__ fixes ls_type.
NetworkLSA(ls_id, adv, seq, age, cks, mask, attached) ==
    [kind |-> "NetworkLSA", ls_type |-> "NETWORK_LSA",
     link_state_id |-> ls_id, advertising_router |-> adv,
     ls_sequence_number |-> seq, ls_age |-> age, ls_checksum |-> cks,
     is_abr |-> FALSE, is_asbr |-> FALSE,
     links |-> <<>>, network_mask |-> mask, attached_routers |-> attached]

\* the key without the LSA type
LsaKey_NoType(lsa) == <<"LSA", lsa.advertising_router, lsa.advertising_router>>

\* "lsa_key = (lsa.ls_type, lsa.link_state_id, lsa.advertising_router)"
LsaKey(lsa) == <<lsa.ls_type, lsa.link_state_id, lsa.advertising_router>>

-----------------------------------------------------------------------------
(* the LSDB dict: key -> lsa *)

\* dict.get(key): None or the stored value
LsdbGet(db, key) == IF key \in DOMAIN db THEN Some(db[key]) ELSE None

\* dict[key] = value
LsdbSet(db, key, lsa) ==
    [k \in DOMAIN db \cup {key} |-> IF k = key THEN lsa ELSE db[k]]

-----------------------------------------------------------------------------
(* graph_lib/ospf.py: build_ospf_graph_from_lsdb *)

RouterData == [type |-> "router", is_abr |-> FALSE, is_asbr |-> FALSE]

PseudoNodeData(ls_id, mask, adv) ==
    [type |-> "pseudo_node", dr_ip |-> ls_id, mask |-> mask, adv_router |-> adv]

\* f"transit_{ls_id}"
PseudoNodeId(ls_id) == "transit_" \o ls_id

\* "if x not in g: g.add_node(x, data={'type': 'router', ...})"
EnsureRouter(g, node_id) ==
    IF Contains(g, node_id) THEN g ELSE add_node(g, node_id, RouterData)

\* node_data['is_abr'] = ...; node_data['is_asbr'] = ... (the dict is mutated)
SetFlags(data, is_abr, is_asbr) ==
    [f \in DOMAIN data \cup {"is_abr", "is_asbr"} |->
        IF f = "is_abr" THEN is_abr
        ELSE IF f = "is_asbr" THEN is_asbr ELSE data[f]]

RECURSIVE Pass1Links(_, _, _)
Pass1Links(g, links, i) ==
    IF i > Len(links) THEN g
    ELSE Pass1Links(IF links[i].link_type = "POINT_TO_POINT"
                    THEN EnsureRouter(g, links[i].link_id) ELSE g,
                    links, i + 1)

RECURSIVE Pass1Attached(_, _, _)
Pass1Attached(g, attached, i) ==
    IF i > Len(attached) THEN g
    ELSE Pass1Attached(EnsureRouter(g, attached[i]), attached, i + 1)

Pass1Entry(g, key, lsa) ==
    LET ls_id == key[2]
        adv_router == key[3]
        g1 == EnsureRouter(g, adv_router)
    IN  IF lsa.kind = "RouterLSA" THEN
            LET node_data == get_node_data(g1, adv_router)
                g2 == IF Truthy(node_data)
                      THEN [g1 EXCEPT !.nodes[adv_router] =
                                SetFlags(node_data, lsa.is_abr, lsa.is_asbr)]
                      ELSE g1
            IN Pass1Links(g2, lsa.links, 1)
        ELSE IF lsa.kind = "NetworkLSA" THEN
            LET pseudo_node_id == PseudoNodeId(ls_id)
                g2 == IF Contains(g1, pseudo_node_id) THEN g1
                      ELSE add_node(g1, pseudo_node_id,
                                    PseudoNodeData(ls_id, lsa.network_mask, adv_router))
            IN Pass1Attached(g2, lsa.attached_routers, 1)
        ELSE g1

\* "for lsa_key, lsa_content in lsdb.items()" over the keys not yet visited
RECURSIVE Pass1(_, _, _)
Pass1(g, db, keys) ==
    IF keys = {} THEN g
    ELSE LET k == CHOOSE x \in keys : TRUE
         IN Pass1(Pass1Entry(g, k, db[k]), db, keys \ {k})

\* Looking up an attribute on the Graph instance: "None" (found) or the
\* exception raised.
GraphGetAttr(name) ==
    IF name \in GraphAttributes THEN "None" ELSE "AttributeError"

\* Pass 2, one link of a router LSA.  Both edge-producing branches begin with
\* g.has_node(...); stub and virtual links do nothing.  Returns the exception
\* raised, "None" if none.
Pass2Link(link) ==
    IF link.link_type = "POINT_TO_POINT" THEN GraphGetAttr("has_node")
    ELSE IF link.link_type = "TRANSIT_NETWORK" THEN GraphGetAttr("has_node")
    ELSE "None"

RECURSIVE Pass2Links(_, _)
Pass2Links(links, i) ==
    IF i > Len(links) THEN "None"
    ELSE IF Pass2Link(links[i]) # "None" THEN Pass2Link(links[i])
    ELSE Pass2Links(links, i + 1)

\* Pass 2, one LSDB entry.  The network-LSA branch begins with
\* "if not g.has_node(pseudo_node_id)".
Pass2Entry(lsa) ==
    IF lsa.kind = "RouterLSA" THEN Pass2Links(lsa.links, 1)
    ELSE IF lsa.kind = "NetworkLSA" THEN GraphGetAttr("has_node")
    ELSE "None"

\* the first exception an entry raises ends the loop
Pass2(db) ==
    IF \E k \in DOMAIN db : Pass2Entry(db[k]) # "None"
    THEN Pass2Entry(db[CHOOSE k \in DOMAIN db : Pass2Entry(db[k]) # "None"])
    ELSE "None"

\* [exc |-> the exception raised or "None", g |-> the graph returned].
\* Every statement of pass 2 that adds an edge stands behind a has_node call,
\* so a pass 2 that ends without raising has added no edge.
build_ospf_graph_from_lsdb(db) ==
    LET g == Pass1(Graph, db, DOMAIN db)
    IN [exc |-> Pass2(db), g |-> g]

-----------------------------------------------------------------------------
(* graph_lib/algorithms.py: dijkstra *)

\* Python orders the heap's (distance, node_id) tuples by distance, then by
\* the str order of the identifiers.
NodeOrder == <<"R1", "R2", "R3", "transit_10.0.0.2">>

Rank(n) == CHOOSE i \in 1..Len(NodeOrder) : NodeOrder[i] = n

HeapLess(a, b) == a[1] < b[1] \/ (a[1] = b[1] /\ Rank(a[2]) < Rank(b[2]))

\* heapq.heappop: the least entry
HeapMin(pq) == CHOOSE a \in pq : \A b \in pq \ {a} : HeapLess(a, b)

\* distances holds a key only while its value is finite: a missing key is
\* float('inf').  The comparison that only ever labels an unlabelled node:
DistLess_FirstLabelWins(distance, distances, node) ==
    node \notin DOMAIN distances

\* "if distance < distances[neighbor]"
DistLess(distance, distances, node) ==
    node \notin DOMAIN distances \/ distance < distances[node]

StartDistance == 0

\* every node entered as its own predecessor
InitialPredecessors_Self(g) == [n \in get_all_nodes(g) |-> n]

\* "predecessors = {node: None for node in graph.get_all_nodes()}"
InitialPredecessors(g) == [n \in get_all_nodes(g) |-> NoNode]

RECURSIVE DijkstraLoop(_, _, _, _, _)
DijkstraLoop(g, end_node, distances, predecessors, pq) ==
    IF pq = {} THEN [distances |-> distances, predecessors |-> predecessors]
    ELSE
        LET top == HeapMin(pq)
            current_distance == top[1]
            current_node == top[2]
            rest == pq \ {top}
        IN  IF current_distance > distances[current_node]
            THEN DijkstraLoop(g, end_node, distances, predecessors, rest)
            ELSE IF end_node # NoNode /\ current_node = end_node
            THEN [distances |-> distances, predecessors |-> predecessors]
            ELSE
                \* each neighbour reads and writes only its own entries, so
                \* the for loop is one simultaneous update
                LET better == {n \in neighbors(g, current_node) :
                                 DistLess(current_distance
                                            + get_edge_weight(g, current_node, n),
                                          distances, n)}
                    nd == [n \in DOMAIN distances \cup better |->
                             IF n \in better
                             THEN current_distance
                                    + get_edge_weight(g, current_node, n)
                             ELSE distances[n]]
                    np == [n \in DOMAIN predecessors |->
                             IF n \in better THEN current_node
                             ELSE predecessors[n]]
                    npq == rest \cup {<<nd[n], n>> : n \in better}
                IN DijkstraLoop(g, end_node, nd, np, npq)

\* dijkstra without a target that leaves its loop after the first pop
dijkstra_OnePop(g, start_node) ==
    DijkstraLoop(g, start_node,
                 [n \in {start_node} |-> StartDistance],
                 InitialPredecessors(g),
                 {<<StartDistance, start_node>>})

\* dijkstra(graph, start_node) with end_node None: (reachable distances,
\* predecessors).  start_node is a node of the graph.
dijkstra(g, start_node) ==
    DijkstraLoop(g, NoNode,
                 [n \in {start_node} |-> StartDistance],
                 InitialPredecessors(g),
                 {<<StartDistance, start_node>>})

-----------------------------------------------------------------------------
(* graph_lib/ospf.py: OSPFArea.recalculate_spf *)

SPFResult(cost, next_hop) == [cost |-> cost, next_hop_router_id |-> next_hop]

\* predecessors.get(x)
PredGet(predecessors, x) ==
    IF x \in DOMAIN predecessors THEN predecessors[x] ELSE NoNode

\* the while loop that walks the predecessor chain
RECURSIVE TraceBack(_, _, _, _)
TraceBack(predecessors, source, curr, prev) ==
    IF prev # NoNode /\ PredGet(predecessors, prev) # source
    THEN TraceBack(predecessors, source, prev, PredGet(predecessors, prev))
    ELSE [curr |-> curr, prev |-> prev]

\* the next hop taken to be the destination's predecessor, without the walk
NextHop_NoWalk(predecessors, source, dest) ==
    IF dest = source THEN NoNode
    ELSE IF PredGet(predecessors, dest) = source THEN dest
    ELSE PredGet(predecessors, dest)

\* the next hop recalculate_spf derives for dest from dijkstra's predecessors
NextHop(predecessors, source, dest) ==
    IF dest = source THEN NoNode
    ELSE
        LET prev == PredGet(predecessors, dest)
        IN  IF prev = source THEN dest
            ELSE
                LET t == TraceBack(predecessors, source, dest, prev)
                IN  IF t.prev # NoNode
                    THEN IF PredGet(predecessors, t.prev) = source
                         THEN t.prev ELSE t.curr
                    ELSE IF t.curr # source THEN t.curr ELSE NoNode

\* SPF run from every node
RouterNodes_AllNodes(g) == get_all_nodes(g)

\* the nodes SPF runs from
RouterNodes(g) ==
    {n \in get_all_nodes(g) :
        Truthy(get_node_data(g, n)) /\ get_node_data(g, n).type = "router"}

\* new_routing_table[source_router_id] after the inner loop
SPFRow(g, source) ==
    LET dj == dijkstra(g, source)
    IN [dest \in DOMAIN dj.distances |->
            SPFResult(dj.distances[dest], NextHop(dj.predecessors, source, dest))]

SPFTable(g) == [source \in RouterNodes(g) |-> SPFRow(g, source)]

\* "not self.topology_graph or not self.topology_graph.get_all_nodes()":
\* None and a graph of length 0 are falsy; an iterator is always truthy.
GraphFalsy(tg) == tg = None \/ GraphLen(tg[1]) = 0

\* the table content self.routing_table names when recalculate_spf returns
recalculate_spf(tg) == IF GraphFalsy(tg) THEN EmptyDict ELSE SPFTable(tg[1])

-----------------------------------------------------------------------------
(* graph_lib/ospf.py: OSPFArea *)

\* Changed with the "elif sequence numbers are equal" test lost: the age
\* rules then also decide for a lower sequence number.
Changed_NoSeqEqTest(current_lsa, lsa) ==
    IF current_lsa = None THEN TRUE
    ELSE
        LET cur == current_lsa[1]
        IN  IF lsa.ls_sequence_number > cur.ls_sequence_number THEN TRUE
            ELSE
                \/ /\ lsa.ls_checksum # cur.ls_checksum
                   /\ lsa.ls_age < cur.ls_age
                \/ IF cur.ls_age = LSMaxAge /\ lsa.ls_age < LSMaxAge THEN TRUE
                   ELSE IF lsa.ls_age < cur.ls_age /\ lsa.ls_age # LSMaxAge
                   THEN TRUE
                   ELSE lsa.ls_age = LSMaxAge /\ cur.ls_age # LSMaxAge

\* the checksum rule as the comment above it words it: "Same Sequence
\* Number & Age: Higher Checksum is preferred"
ChecksumRule_OnEqualAge(cur, lsa) ==
    \/ lsa.ls_checksum # cur.ls_checksum /\ lsa.ls_age < cur.ls_age
    \/ lsa.ls_age = cur.ls_age /\ lsa.ls_checksum > cur.ls_checksum

\* "if lsa.ls_checksum != current_lsa.ls_checksum: if lsa.ls_age <
\* current_lsa.ls_age: changed = True"
ChecksumRule(cur, lsa) ==
    lsa.ls_checksum # cur.ls_checksum /\ lsa.ls_age < cur.ls_age

\* The acceptance decision of add_lsa_to_lsdb: the value of "changed" when
\* the lookup of the key gave current_lsa (None or the stored LSA).
Changed(current_lsa, lsa) ==
    IF current_lsa = None THEN TRUE
    ELSE
        LET cur == current_lsa[1]
        IN  IF lsa.ls_sequence_number > cur.ls_sequence_number THEN TRUE
            ELSE IF lsa.ls_sequence_number = cur.ls_sequence_number THEN
                \/ ChecksumRule(cur, lsa)
                \/ IF cur.ls_age = LSMaxAge /\ lsa.ls_age < LSMaxAge THEN TRUE
                   ELSE IF lsa.ls_age < cur.ls_age /\ lsa.ls_age # LSMaxAge
                   THEN TRUE
                   ELSE lsa.ls_age = LSMaxAge /\ cur.ls_age # LSMaxAge
            ELSE FALSE

\* build_area_topology_from_lsdb on an area whose fields are (db, tg, rt):
\* the fields it leaves, the exception that ended it ("None" if it returned)
\* and the calls it made.  The assignment to topology_graph happens only once
\* build_ospf_graph_from_lsdb has returned.
build_area_topology_from_lsdb(db, tg, rt) ==
    LET b == build_ospf_graph_from_lsdb(db)
    IN  IF b.exc # "None"
        THEN [topology_graph |-> tg, routing_table |-> rt, exc |-> b.exc,
              calls |-> <<"build_ospf_graph_from_lsdb">>]
        ELSE [topology_graph |-> Some(b.g),
              routing_table |-> recalculate_spf(Some(b.g)), exc |-> "None",
              calls |-> <<"build_ospf_graph_from_lsdb", "recalculate_spf">>]

\* add_lsa_to_lsdb with the rebuild outside "if changed:"
add_lsa_to_lsdb_AlwaysRebuild(db, tg, rt, lsa) ==
    LET lsa_key == LsaKey(lsa)
        changed == Changed(LsdbGet(db, lsa_key), lsa)
        db2 == IF changed THEN LsdbSet(db, lsa_key, lsa) ELSE db
        r == build_area_topology_from_lsdb(db2, tg, rt)
    IN [lsdb |-> db2, topology_graph |-> r.topology_graph,
        routing_table |-> r.routing_table,
        result |-> IF r.exc # "None" THEN r.exc
                   ELSE IF changed THEN "True" ELSE "False",
        calls |-> <<"build_area_topology_from_lsdb">> \o r.calls]

\* add_lsa_to_lsdb(lsa) on an area whose fields are (db, tg, rt)
add_lsa_to_lsdb(db, tg, rt, lsa) ==
    LET lsa_key == LsaKey(lsa)
        current_lsa == LsdbGet(db, lsa_key)
        changed == Changed(current_lsa, lsa)
    IN  IF ~changed
        THEN [lsdb |-> db, topology_graph |-> tg, routing_table |-> rt,
              result |-> "False", calls |-> <<>>]
        ELSE
            LET db2 == LsdbSet(db, lsa_key, lsa)
                r == build_area_topology_from_lsdb(db2, tg, rt)
            IN [lsdb |-> db2, topology_graph |-> r.topology_graph,
                routing_table |-> r.routing_table,
                result |-> IF r.exc = "None" THEN "True" ELSE r.exc,
                calls |-> <<"build_area_topology_from_lsdb">> \o r.calls]

-----------------------------------------------------------------------------
(* The advertisements offered to the area *)

SegIP == "10.0.0.2"     \* the designated router's address on the segment
SegMask == "255.255.255.0"

Seqs == 0..MaxSeq
Ages == {AgeYoung, AgeOld, LSMaxAge}
Checksums == {0, ChecksumB}

R1Transit == <<RouterLSALink(SegIP, "10.0.0.1", "TRANSIT_NETWORK", MetricA)>>

R2Links ==
    { <<RouterLSALink("192.168.2.0", SegMask, "STUB_NETWORK", MetricB)>>,
      <<RouterLSALink(SegIP, SegIP, "TRANSIT_NETWORK", MetricB)>>,
      <<RouterLSALink("R1", "10.0.1.2", "POINT_TO_POINT", MetricB)>> }

SegNetworkLSA == NetworkLSA(SegIP, "R2", 0, AgeYoung, 0, SegMask, <<"R1", "R2">>)

\* R1 re-originates under every header, without links and (young, default
\* checksum) with its transit link; R2 and the segment's network LSA come
\* under one header each.
OfferedLSAs ==
    {RouterLSA("R1", s, a, c, <<>>) : s \in Seqs, a \in Ages, c \in Checksums}
    \cup {RouterLSA("R1", s, AgeYoung, 0, R1Transit) : s \in Seqs}
    \cup {RouterLSA("R2", 0, AgeYoung, 0, l) : l \in R2Links}
    \cup {SegNetworkLSA}

-----------------------------------------------------------------------------
(* The area as its callers see it: one action per public call *)

\* OSPFArea(area_id): the dataclass defaults
Init ==
    /\ lsdb = EmptyDict
    /\ topology_graph = None
    /\ routing_table = EmptyDict
    /\ op = "__init__"
    /\ arg = None
    /\ result = "None"
    /\ calls = <<>>
    /\ pc = "idle"
    /\ todo = {}
    /\ new_routing_table = EmptyDict
    /\ graphs_seen = {None}
    /\ readerRef = "none"
    /\ readerObj = EmptyDict
    /\ observed = None
    /\ graph = Graph
    /\ lsa_obj = None
    /\ router = None
    /\ same_object = {}

AddLsaToLsdb(lsa) ==
    LET r == add_lsa_to_lsdb(lsdb, topology_graph, routing_table, lsa)
    IN  /\ lsdb' = r.lsdb
        /\ topology_graph' = r.topology_graph
        /\ routing_table' = r.routing_table
        /\ op' = "add_lsa_to_lsdb"
        /\ arg' = Some(lsa)
        /\ result' = r.result
        /\ calls' = r.calls
        \* the offered object is not lsa_obj: where it is stored, the entry
        \* is lsa_obj no longer
        /\ same_object' = IF r.result = "False" THEN same_object
                          ELSE same_object \ {LsaKey(lsa)}
        /\ UNCHANGED <<graph, lsa_obj, router>>
        /\ UNCHANGED <<stepVars, readerVars>>

BuildAreaTopologyFromLsdb ==
    LET r == build_area_topology_from_lsdb(lsdb, topology_graph, routing_table)
    IN  /\ lsdb' = lsdb
        /\ topology_graph' = r.topology_graph
        /\ routing_table' = r.routing_table
        /\ op' = "build_area_topology_from_lsdb"
        /\ arg' = None
        /\ result' = r.exc
        /\ calls' = r.calls
        /\ UNCHANGED libVars
        /\ UNCHANGED <<stepVars, readerVars>>

RecalculateSpf ==
    /\ routing_table' = recalculate_spf(topology_graph)
    /\ op' = "recalculate_spf"
    /\ arg' = None
    /\ result' = "None"
    /\ calls' = <<>>
    /\ UNCHANGED libVars
    /\ UNCHANGED <<lsdb, topology_graph, stepVars, readerVars>>

Next ==
    \/ \E lsa \in OfferedLSAs : AddLsaToLsdb(lsa)
    \/ BuildAreaTopologyFromLsdb
    \/ RecalculateSpf

Spec == Init /\ [][Next]_vars

-----------------------------------------------------------------------------
(* Claims about the area as its callers see it (specification Spec) *)

IsAdd == op = "add_lsa_to_lsdb"

\* the rebuild of the current LSDB
Rebuilt == build_ospf_graph_from_lsdb(lsdb)

\* graph and table are what a rebuild and an SPF run over the current LSDB give
ConsistentWithLsdb ==
    /\ Rebuilt.exc = "None"
    /\ topology_graph = Some(Rebuilt.g)
    /\ routing_table = recalculate_spf(topology_graph)

\* C1: every add_lsa_to_lsdb call that accepts its LSA returns True and, when
\* it ends, topology_graph is the two-pass rebuild of the current LSDB and
\* routing_table the SPF result on it; no call leaves the LSDB changed with
\* graph or table still those of the previous LSDB.
C1_AcceptedCallRebuilds ==
    (IsAdd /\ result # "False") => (result = "True" /\ ConsistentWithLsdb)

\* The acceptance rule as the specification words it, for a stored entry cur
\* (None or <<lsa>>) and an offered LSA.
SpecAccepts(cur, lsa) ==
    \/ cur = None
    \/ /\ cur # None
       /\ \/ lsa.ls_sequence_number > cur[1].ls_sequence_number
          \/ /\ lsa.ls_sequence_number = cur[1].ls_sequence_number
             /\ \/ cur[1].ls_age = LSMaxAge /\ lsa.ls_age # LSMaxAge
                \/ /\ lsa.ls_age < cur[1].ls_age
                   /\ (cur[1].ls_age = LSMaxAge) <=> (lsa.ls_age = LSMaxAge)
                \/ lsa.ls_age = LSMaxAge /\ cur[1].ls_age # LSMaxAge

\* C2: add_lsa_to_lsdb(L) stores L under its key and returns True exactly
\* when the key is absent, or L's sequence number is higher, or the sequence
\* numbers are equal and the age rules (b), (c), (d) let L win; in every other
\* case it returns False and the stored entry stays.
C2_AcceptsExactlyWhen ==
    [][ op' = "add_lsa_to_lsdb" =>
          LET L == arg'[1]
              cur == LsdbGet(lsdb, LsaKey(L))
          IN  IF SpecAccepts(cur, L)
              THEN result' = "True" /\ LsdbGet(lsdb', LsaKey(L)) = Some(L)
              ELSE result' = "False" /\ LsdbGet(lsdb', LsaKey(L)) = cur ]_vars

\* The store/reject half of C2 alone, whatever the call returns or raises.
AcceptanceDecisionAsSpecified ==
    [][ op' = "add_lsa_to_lsdb" =>
          LET L == arg'[1]
              cur == LsdbGet(lsdb, LsaKey(L))
          IN  IF SpecAccepts(cur, L)
              THEN result' # "False" /\ LsdbGet(lsdb', LsaKey(L)) = Some(L)
              ELSE result' = "False" /\ LsdbGet(lsdb', LsaKey(L)) = cur ]_vars

\* C3: an LSA whose sequence number is lower than the stored entry's is
\* turned down (False, LSDB unchanged), whatever the ages and checksums; the
\* sequence number stored under a key never decreases.
C3_FreshnessMonotone ==
    [][ /\ \A k \in DOMAIN lsdb :
              /\ k \in DOMAIN lsdb'
              /\ lsdb'[k].ls_sequence_number >= lsdb[k].ls_sequence_number
        /\ (/\ op' = "add_lsa_to_lsdb"
            /\ LsaKey(arg'[1]) \in DOMAIN lsdb
            /\ arg'[1].ls_sequence_number
                 < lsdb[LsaKey(arg'[1])].ls_sequence_number)
           => (result' = "False" /\ lsdb' = lsdb) ]_vars

\* a call with a lower sequence number than the stored entry's has ended,
\* offered younger and with another checksum than the stored entry
C3_Witness ==
    /\ IsAdd /\ result = "False"
    /\ LsaKey(arg[1]) \in DOMAIN lsdb
    /\ arg[1].ls_sequence_number < lsdb[LsaKey(arg[1])].ls_sequence_number
    /\ arg[1].ls_age < lsdb[LsaKey(arg[1])].ls_age
    /\ arg[1].ls_checksum # lsdb[LsaKey(arg[1])].ls_checksum

\* C4: a rejected add_lsa_to_lsdb call returns False without raising and
\* changes neither the LSDB nor topology_graph nor routing_table; it makes no
\* rebuild and no SPF run.
C4_RejectedIsNoOp ==
    [][ (/\ op' = "add_lsa_to_lsdb"
         /\ ~SpecAccepts(LsdbGet(lsdb, LsaKey(arg'[1])), arg'[1]))
        => /\ result' = "False"
           /\ calls' = <<>>
           /\ lsdb' = lsdb
           /\ topology_graph' = topology_graph
           /\ routing_table' = routing_table ]_vars

\* a call was rejected on an area that holds a built graph and a table
C4_Witness ==
    /\ IsAdd /\ result = "False"
    /\ topology_graph # None
    /\ routing_table # EmptyDict
    /\ lsdb[LsaKey(arg[1])] # arg[1]

HoldsSegment ==
    /\ LsdbGet(lsdb, LsaKey(SegNetworkLSA)) = Some(SegNetworkLSA)
    /\ \E s \in Seqs : LsdbGet(lsdb, <<"ROUTER_LSA", "R1", "R1">>)
                          = Some(RouterLSA("R1", s, AgeYoung, 0, R1Transit))
    /\ LsdbGet(lsdb, <<"ROUTER_LSA", "R2", "R2">>)
          = Some(RouterLSA("R2", 0, AgeYoung, 0,
                           <<RouterLSALink(SegIP, SegIP, "TRANSIT_NETWORK", MetricB)>>))

HasRoute(src, dst) ==
    src \in DOMAIN routing_table /\ dst \in DOMAIN routing_table[src]

\* C8: once the LSDB holds the router LSAs of R1 and R2, each with a transit
\* link to the segment (metrics MetricA and MetricB), and the network LSA
\* listing both, the table prices R1 -> R2 at MetricA and R2 -> R1 at MetricB.
C8_PseudoNodePricing ==
    (IsAdd /\ HoldsSegment) =>
        /\ HasRoute("R1", "R2") /\ routing_table["R1"]["R2"].cost = MetricA
        /\ HasRoute("R2", "R1") /\ routing_table["R2"]["R1"].cost = MetricB

AreaEmpty ==
    lsdb = EmptyDict /\ topology_graph = None /\ routing_table = EmptyDict

AreaBuilt == topology_graph # None /\ ConsistentWithLsdb

\* C10: after construction and after any sequence of calls the area is empty
\* (no LSDB entry, no graph, empty table) or built (graph and table consistent
\* with the LSDB); topology_graph is None exactly when the LSDB is empty.
C10_EmptyOrBuilt ==
    /\ AreaEmpty \/ AreaBuilt
    /\ (topology_graph = None) <=> (lsdb = EmptyDict)

-----------------------------------------------------------------------------
(* recalculate_spf on topology graphs with edges (specification SpecSPF).   *)
(* The caller builds a graph with add_node and add_edge, assigns it to the  *)
(* area's topology_graph field and calls recalculate_spf.                   *)

Routers == {"R1", "R2", "R3"}

\* the four nodes, tagged as build_ospf_graph_from_lsdb tags them
BaseGraph ==
    add_node(add_node(add_node(add_node(Graph, "R1", RouterData),
                               "R2", RouterData), "R3", RouterData),
             PseudoNodeId(SegIP), PseudoNodeData(SegIP, SegMask, "R2"))

\* edges a caller may add: a router's edge carries a positive weight, the
\* pseudo-node's edges weigh 0
PossibleEdges ==
    {<<u, v, w>> \in Routers \X get_all_nodes(BaseGraph) \X {WeightA, WeightB} :
        u # v}
    \cup {<<PseudoNodeId(SegIP), v, 0>> : v \in Routers}

\* the graphs that at most k add_edge calls make of BaseGraph
RECURSIVE HandBuiltGraphs(_)
HandBuiltGraphs(k) ==
    IF k = 0 THEN {BaseGraph}
    ELSE LET prev == HandBuiltGraphs(k - 1)
         IN prev \cup {add_edge(g, e[1], e[2], e[3]) :
                          g \in prev, e \in PossibleEdges}

InitSPF ==
    /\ lsdb = EmptyDict
    /\ topology_graph \in {Some(g) : g \in HandBuiltGraphs(MaxEdges)}
    /\ routing_table = EmptyDict
    /\ op = "__init__"
    /\ arg = None
    /\ result = "None"
    /\ calls = <<>>
    /\ pc = "idle"
    /\ todo = {}
    /\ new_routing_table = EmptyDict
    /\ graphs_seen = {topology_graph}
    /\ readerRef = "none"
    /\ readerObj = EmptyDict
    /\ observed = None
    /\ graph = Graph
    /\ lsa_obj = None
    /\ router = None
    /\ same_object = {}

NextSPF == RecalculateSpf

SpecSPF == InitSPF /\ [][NextSPF]_vars

\* The reference the claims measure the table against: the costs of the
\* walks of at most k edges from r, per end node (Bellman-Ford rounds).
RECURSIVE WalkCosts(_, _, _)
WalkCosts(g, r, k) ==
    IF k = 0 THEN [d \in get_all_nodes(g) |-> IF d = r THEN {0} ELSE {}]
    ELSE LET f == WalkCosts(g, r, k - 1)
         IN [d \in get_all_nodes(g) |->
                f[d] \cup UNION {{c + get_edge_weight(g, u, d) : c \in f[u]} :
                                    u \in {x \in get_all_nodes(g) :
                                              HasEdge(g, x, d)}}]

MinOf(S) == CHOOSE x \in S : \A y \in S : x <= y

\* the least cost of a directed path from r to each node it reaches (weights
\* are non-negative, so a walk of more than n - 1 edges is never cheaper)
ShortestDistance(g, r) ==
    LET f == WalkCosts(g, r, GraphLen(g) - 1)
    IN [d \in {n \in get_all_nodes(g) : f[n] # {}} |-> MinOf(f[d])]

SpfHasRun == op # "__init__"

\* C5: once SPF has run, for every router-tagged node r of the topology
\* graph the row routing_table[r] has exactly the nodes reachable from r as
\* keys, and the cost stored for each is the minimum sum of edge weights over
\* the directed paths from r to it.
C5_CostIsMinimum ==
    (SpfHasRun /\ topology_graph # None) =>
        \A r \in RouterNodes(topology_graph[1]) :
            /\ r \in DOMAIN routing_table
            /\ LET sd == ShortestDistance(topology_graph[1], r)
               IN  /\ DOMAIN routing_table[r] = DOMAIN sd
                   /\ \A d \in DOMAIN sd : routing_table[r][d].cost = sd[d]

\* SPF has run on a graph where R1 reaches R2 by a direct edge and, cheaper,
\* across the pseudo-node, and does not reach R3
C5_Witness ==
    /\ op = "recalculate_spf"
    /\ topology_graph # None
    /\ HasEdge(topology_graph[1], "R1", "R2")
    /\ HasRoute("R1", "R2")
    /\ routing_table["R1"]["R2"].cost
          < get_edge_weight(topology_graph[1], "R1", "R2")
    /\ ~HasRoute("R1", "R3")

\* C6: once SPF has run, for every source router r and every reachable
\* destination d other than r, the stored next hop n is an out-neighbour of r
\* with cost(r, d) = weight(r, n) + shortest distance(n, d); when dijkstra's
\* predecessor of d is r, the next hop is d itself.
C6_NextHopOnShortestPath ==
    (SpfHasRun /\ topology_graph # None) =>
        LET g == topology_graph[1]
        IN \A r \in RouterNodes(g) :
             \A d \in DOMAIN ShortestDistance(g, r) \ {r} :
                /\ HasRoute(r, d)
                /\ LET n == routing_table[r][d].next_hop_router_id
                   IN  /\ n \in neighbors(g, r)
                       /\ d \in DOMAIN ShortestDistance(g, n)
                       /\ routing_table[r][d].cost
                            = get_edge_weight(g, r, n)
                                + ShortestDistance(g, n)[d]
                       /\ dijkstra(g, r).predecessors[d] = r => n = d

\* SPF has run on a graph where a destination lies three edges from R1, so
\* the walk along the predecessors takes more than one step
C6_Witness ==
    /\ op = "recalculate_spf"
    /\ topology_graph # None
    /\ \E d \in get_all_nodes(topology_graph[1]) :
          /\ HasRoute("R1", d)
          /\ LET p == dijkstra(topology_graph[1], "R1").predecessors
             IN  /\ p[d] \notin {NoNode, "R1"}
                 /\ p[p[d]] \notin {NoNode, "R1"}
                 /\ p[p[p[d]]] = "R1"
                 /\ routing_table["R1"][d].next_hop_router_id = p[p[d]]

-----------------------------------------------------------------------------
(* The area statement by statement, with a reader of area.routing_table     *)
(* (specification SpecReader).  The writer is the one thread that calls the *)
(* area; the reader runs between any two of its steps.  routing_table is    *)
(* the content of the dict the field names; readerObj is the content of the *)
(* dict the reader's reference names, the same dict while readerRef is      *)
(* "current".                                                               *)

\* the advertisements offered here: R1 without links under each sequence
\* number, R2 with a stub link, and the segment's network LSA
ReaderLSAs ==
    {RouterLSA("R1", s, AgeYoung, 0, <<>>) : s \in Seqs}
    \cup {RouterLSA("R2", 0, AgeYoung, 0,
                    <<RouterLSALink("192.168.2.0", SegMask, "STUB_NETWORK", MetricB)>>),
          SegNetworkLSA}

\* what the running call returns when it runs to its end
ReturnValue(name) == IF name = "add_lsa_to_lsdb" THEN "True" ELSE "None"

\* the content of the reader's dict after a statement left content c in the
\* dict the field names, without rebinding the field
Aliased(c) == IF readerRef = "current" THEN c ELSE readerObj

\* add_lsa_to_lsdb up to "if changed:": the decision and the store
CallAddLsaToLsdb(lsa) ==
    LET lsa_key == LsaKey(lsa)
        changed == Changed(LsdbGet(lsdb, lsa_key), lsa)
    IN  /\ pc = "idle"
        /\ op' = "add_lsa_to_lsdb"
        /\ arg' = Some(lsa)
        /\ calls' = <<>>
        /\ IF changed
           THEN /\ lsdb' = LsdbSet(lsdb, lsa_key, lsa)
                /\ result' = "<running>"
                /\ pc' = "build"
           ELSE /\ lsdb' = lsdb
                /\ result' = "False"
                /\ pc' = "idle"
        /\ UNCHANGED libVars
        /\ UNCHANGED <<topology_graph, routing_table, todo, new_routing_table,
                       graphs_seen, readerVars>>

CallBuildAreaTopologyFromLsdb ==
    /\ pc = "idle"
    /\ op' = "build_area_topology_from_lsdb"
    /\ arg' = None
    /\ result' = "<running>"
    /\ calls' = <<>>
    /\ pc' = "build"
    /\ UNCHANGED libVars
    /\ UNCHANGED <<areaVars, todo, new_routing_table, graphs_seen, readerVars>>

CallRecalculateSpf ==
    /\ pc = "idle"
    /\ op' = "recalculate_spf"
    /\ arg' = None
    /\ result' = "<running>"
    /\ calls' = <<>>
    /\ pc' = "spf"
    /\ UNCHANGED libVars
    /\ UNCHANGED <<areaVars, todo, new_routing_table, graphs_seen, readerVars>>

\* "self.topology_graph = build_ospf_graph_from_lsdb(...)": the assignment
\* happens only if the build returns
StepBuild ==
    LET b == build_ospf_graph_from_lsdb(lsdb)
    IN  /\ pc = "build"
        /\ calls' = Append(calls, "build_ospf_graph_from_lsdb")
        /\ IF b.exc # "None"
           THEN /\ result' = b.exc
                /\ pc' = "idle"
                /\ UNCHANGED <<topology_graph, graphs_seen>>
           ELSE /\ topology_graph' = Some(b.g)
                /\ graphs_seen' = graphs_seen \cup {Some(b.g)}
                /\ result' = result
                /\ pc' = "spf"
        /\ UNCHANGED libVars
        /\ UNCHANGED <<lsdb, routing_table, op, arg, todo, new_routing_table,
                       readerVars>>

\* recalculate_spf up to its for loop: with no graph or an empty one,
\* "self.routing_table.clear()" and return; else the empty local table and
\* the list of router nodes
spf_enter(tg, rt) ==
    IF GraphFalsy(tg)
    THEN [published |-> EmptyDict, new_routing_table |-> EmptyDict,
          todo |-> {}, pc |-> "idle"]
    ELSE [published |-> rt, new_routing_table |-> EmptyDict,
          todo |-> RouterNodes(tg[1]), pc |-> "loop"]

StepSpfEnter ==
    LET r == spf_enter(topology_graph, routing_table)
    IN  /\ pc = "spf"
        /\ calls' = Append(calls, "recalculate_spf")
        /\ routing_table' = r.published
        /\ readerObj' = Aliased(r.published)
        /\ new_routing_table' = r.new_routing_table
        /\ todo' = r.todo
        /\ pc' = r.pc
        /\ result' = IF r.pc = "idle" THEN ReturnValue(op) ELSE result
        /\ UNCHANGED libVars
        /\ UNCHANGED <<lsdb, topology_graph, op, arg, graphs_seen,
                       readerRef, observed>>

\* one round of the for loop that writes the row into the dict the field
\* names as well
spf_source_InPlace(g, rt, nrt, source) ==
    [published |-> [r \in DOMAIN rt \cup {source} |->
                        IF r = source THEN SPFRow(g, source) ELSE rt[r]],
     new_routing_table |-> [r \in DOMAIN nrt \cup {source} |->
                        IF r = source THEN SPFRow(g, source) ELSE nrt[r]]]

\* one round of the for loop: the row of one source goes into the local
\* table; the dict the field names is left alone
spf_source(g, rt, nrt, source) ==
    [published |-> rt,
     new_routing_table |-> [r \in DOMAIN nrt \cup {source} |->
                        IF r = source THEN SPFRow(g, source) ELSE nrt[r]]]

\* the sources are taken in any order (the list's order does not change the
\* table)
StepSpfSource ==
    /\ pc = "loop"
    /\ \E source \in todo :
          LET r == spf_source(topology_graph[1], routing_table,
                              new_routing_table, source)
          IN  /\ routing_table' = r.published
              /\ readerObj' = Aliased(r.published)
              /\ new_routing_table' = r.new_routing_table
              /\ todo' = todo \ {source}
    /\ UNCHANGED libVars
    /\ UNCHANGED <<lsdb, topology_graph, callVars, pc, graphs_seen,
                   readerRef, observed>>

\* "self.routing_table = new_routing_table": the field names a new dict; a
\* reference taken before names the old one
StepPublish ==
    /\ pc = "loop"
    /\ todo = {}
    /\ routing_table' = new_routing_table
    /\ readerRef' = IF readerRef = "current" THEN "old" ELSE readerRef
    /\ result' = ReturnValue(op)
    /\ pc' = "idle"
    /\ UNCHANGED libVars
    /\ UNCHANGED <<lsdb, topology_graph, op, arg, calls, todo,
                   new_routing_table, graphs_seen, readerObj, observed>>

\* the reader evaluates area.routing_table and keeps the reference
ReaderTake ==
    /\ readerRef' = "current"
    /\ readerObj' = routing_table
    /\ UNCHANGED libVars
    /\ UNCHANGED <<areaVars, callVars, stepVars, observed>>

\* the reader reads the dict its reference names
ReaderRead ==
    /\ readerRef # "none"
    /\ observed' = Some(readerObj)
    /\ UNCHANGED libVars
    /\ UNCHANGED <<areaVars, callVars, stepVars, readerRef, readerObj>>

NextReader ==
    \/ \E lsa \in ReaderLSAs : CallAddLsaToLsdb(lsa)
    \/ CallBuildAreaTopologyFromLsdb
    \/ CallRecalculateSpf
    \/ StepBuild
    \/ StepSpfEnter
    \/ StepSpfSource
    \/ StepPublish
    \/ ReaderTake
    \/ ReaderRead

SpecReader == Init /\ [][NextReader]_vars

\* the complete tables: the SPF results of the graphs the area has held
CompleteTables == {recalculate_spf(tg) : tg \in graphs_seen}

\* the statement-wise calls end where the calls of Spec end
StepsAgreeWithCalls ==
    (pc = "idle" /\ result \in {"True", "None"} /\ op # "__init__")
        => routing_table = recalculate_spf(topology_graph)

\* C9: the content of the dict area.routing_table names changes in one step
\* only, the assignment that ends recalculate_spf, and to the complete table
\* of the current graph; the content of a dict a reader holds never changes;
\* so what the field names, what a reader holds and what it has read is
\* always a complete table, the previous or the new one.
C9_AtomicTableReplacement ==
    [][ /\ routing_table' # routing_table =>
              /\ pc = "loop" /\ todo = {} /\ pc' = "idle"
              /\ routing_table' = recalculate_spf(topology_graph')
        /\ readerObj' # readerObj =>
              (readerRef' = "current" /\ readerObj' = routing_table)
        /\ routing_table' \in CompleteTables'
        /\ readerObj' \in CompleteTables'
        /\ observed' # None => observed'[1] \in CompleteTables' ]_vars

\* recalculate_spf is between two rounds of its loop, its local table filled
\* in part, while the reader holds and has read the table published before
C9_Witness ==
    /\ pc = "loop"
    /\ todo # {}
    /\ new_routing_table # EmptyDict
    /\ routing_table # EmptyDict
    /\ readerRef = "current"
    /\ observed = Some(routing_table)

-----------------------------------------------------------------------------
(* graph_lib/algorithms.py called on a graph its caller built               *)
(* (specification SpecPaths): one call per graph, with every start and      *)
(* target, a node of the graph or not.                                      *)

\* an identifier that is no node of any graph here
AbsentNode == "R9"

\* what a call leaves in result: the exception raised ("None" if it
\* returned) and the value returned
Raised(exc) == [exc |-> exc, value |-> None]
Returned(value) == [exc |-> "None", value |-> value]

\* "while curr is not None: path.insert(0, curr); if curr == start_node:
\* break; curr = predecessors[curr]"
RECURSIVE PathBack(_, _, _, _)
PathBack(predecessors, start_node, curr, path) ==
    IF curr = NoNode THEN path
    ELSE IF curr = start_node THEN <<curr>> \o path
    ELSE PathBack(predecessors, start_node, PredGet(predecessors, curr),
                  <<curr>> \o path)

\* dijkstra with a target whose path is the target alone
dijkstra_target_NoPath(g, start_node, end_node) ==
    LET r == DijkstraLoop(g, end_node,
                          [n \in {start_node} |-> StartDistance],
                          InitialPredecessors(g),
                          {<<StartDistance, start_node>>})
    IN  IF end_node \notin DOMAIN r.distances THEN <<None, <<>>>>
        ELSE <<Some(r.distances[end_node]), <<start_node, end_node>>>>

\* dijkstra(graph, start_node, end_node), both nodes of the graph: the pair
\* (distance or None, path)
dijkstra_target(g, start_node, end_node) ==
    LET r == DijkstraLoop(g, end_node,
                          [n \in {start_node} |-> StartDistance],
                          InitialPredecessors(g),
                          {<<StartDistance, start_node>>})
    IN  IF end_node \notin DOMAIN r.distances THEN <<None, <<>>>>
        ELSE LET path == PathBack(r.predecessors, start_node, end_node, <<>>)
             IN  IF path = <<>> \/ path[1] # start_node THEN <<None, <<>>>>
                 ELSE <<Some(r.distances[end_node]), path>>

\* dijkstra without the test of end_node
dijkstra_call_NoEndTest(g, start_node, end_node) ==
    IF ~Contains(g, start_node) THEN Raised("ValueError")
    ELSE IF end_node # NoNode
    THEN Returned(dijkstra_target(g, start_node, end_node))
    ELSE LET r == dijkstra(g, start_node)
         IN Returned(<<r.distances, r.predecessors>>)

\* dijkstra as its caller sees it; end_node NoNode is "no target"
dijkstra_call(g, start_node, end_node) ==
    IF ~Contains(g, start_node) THEN Raised("ValueError")
    ELSE IF end_node # NoNode /\ ~Contains(g, end_node) THEN Raised("ValueError")
    ELSE IF end_node # NoNode
    THEN Returned(dijkstra_target(g, start_node, end_node))
    ELSE LET r == dijkstra(g, start_node)
         IN Returned(<<r.distances, r.predecessors>>)

\* "for neighbor in graph.neighbors(node)": the keys of the node's
\* adjacency dict in insertion order
NeighborList(g, node_id) == g.keys[node_id]

\* the elements of a list that are not in a set, in the list's order
RECURSIVE NotIn(_, _)
NotIn(list, visited) ==
    IF list = <<>> THEN <<>>
    ELSE IF Head(list) \in visited THEN NotIn(Tail(list), visited)
    ELSE <<Head(list)>> \o NotIn(Tail(list), visited)

Elements(list) == {list[i] : i \in 1..Len(list)}

Reversed(list) == [i \in 1..Len(list) |-> list[Len(list) + 1 - i]]

\* "predecessors[neighbor] = current_node" for every neighbour in news
SetPredecessors(predecessors, news, current_node) ==
    [n \in DOMAIN predecessors \cup news |->
        IF n \in news THEN current_node ELSE predecessors[n]]

\* the while loop of bfs
RECURSIVE BfsLoop(_, _, _, _, _, _)
BfsLoop(g, target_node, queue, visited, predecessors, visited_in_order) ==
    IF queue = <<>>
    THEN [path_found |-> FALSE, predecessors |-> predecessors,
          visited_in_order |-> visited_in_order]
    ELSE
        LET current_node == Head(queue)
            order == IF target_node = NoNode
                     THEN Append(visited_in_order, current_node)
                     ELSE visited_in_order
        IN  IF target_node # NoNode /\ current_node = target_node
            THEN [path_found |-> TRUE, predecessors |-> predecessors,
                  visited_in_order |-> order]
            ELSE
                LET news == NotIn(NeighborList(g, current_node), visited)
                IN BfsLoop(g, target_node, Tail(queue) \o news,
                           visited \cup Elements(news),
                           SetPredecessors(predecessors, Elements(news),
                                           current_node),
                           order)

\* bfs that never reports a path
bfs_NoPath(g, start_node, target_node) ==
    LET r == BfsLoop(g, target_node, <<start_node>>, {start_node},
                     [n \in {start_node} |-> NoNode], <<>>)
    IN  IF target_node = NoNode THEN r.visited_in_order
        ELSE <<None, r.predecessors>>

\* bfs(graph, start_node, target_node), the nodes given being in the graph:
\* the list of visited nodes, or the pair (path or None, predecessors)
bfs(g, start_node, target_node) ==
    LET r == BfsLoop(g, target_node, <<start_node>>, {start_node},
                     [n \in {start_node} |-> NoNode], <<>>)
    IN  IF target_node = NoNode THEN r.visited_in_order
        ELSE IF r.path_found
        THEN <<Some(PathBack(r.predecessors, start_node, target_node, <<>>)),
               r.predecessors>>
        ELSE <<None, r.predecessors>>

\* bfs that gives the visited nodes last first
bfs_call_Reversed(g, start_node, target_node) ==
    IF ~Contains(g, start_node) THEN Raised("ValueError")
    ELSE IF target_node # NoNode /\ ~Contains(g, target_node)
    THEN Raised("ValueError")
    ELSE IF target_node = NoNode
    THEN Returned(Reversed(bfs(g, start_node, target_node)))
    ELSE Returned(bfs(g, start_node, target_node))

bfs_call(g, start_node, target_node) ==
    IF ~Contains(g, start_node) THEN Raised("ValueError")
    ELSE IF target_node # NoNode /\ ~Contains(g, target_node)
    THEN Raised("ValueError")
    ELSE Returned(bfs(g, start_node, target_node))

\* the while loop of dfs; the stack's top is the end of the list
RECURSIVE DfsLoop(_, _, _, _, _, _, _)
DfsLoop(g, start_node, target_node, stack, visited, predecessors, dfs_order_visited) ==
    IF stack = <<>>
    THEN [path_found_to_target |-> FALSE, predecessors |-> predecessors,
          dfs_order_visited |-> dfs_order_visited]
    ELSE
        LET current_node == stack[Len(stack)]
            rest == SubSeq(stack, 1, Len(stack) - 1)
        IN  IF current_node \in visited
            THEN DfsLoop(g, start_node, target_node, rest, visited,
                         predecessors, dfs_order_visited)
            ELSE
                LET visited2 == visited \cup {current_node}
                    order == IF target_node = NoNode
                             THEN Append(dfs_order_visited, current_node)
                             ELSE dfs_order_visited
                    pred2 == IF current_node = start_node
                             THEN SetPredecessors(predecessors,
                                                  {current_node}, NoNode)
                             ELSE predecessors
                IN  IF target_node # NoNode /\ current_node = target_node
                    THEN [path_found_to_target |-> TRUE,
                          predecessors |-> pred2,
                          dfs_order_visited |-> order]
                    ELSE
                        LET news == NotIn(Reversed(NeighborList(g, current_node)),
                                          visited2)
                        IN DfsLoop(g, start_node, target_node, rest \o news,
                                   visited2,
                                   SetPredecessors(pred2, Elements(news),
                                                   current_node),
                                   order)

\* dfs that goes level by level
dfs_LevelOrder(g, start_node, target_node) == bfs(g, start_node, target_node)

\* dfs(graph, start_node, target_node), the nodes given being in the graph
dfs(g, start_node, target_node) ==
    LET r == DfsLoop(g, start_node, target_node, <<start_node>>, {},
                     EmptyDict, <<>>)
    IN  IF target_node = NoNode THEN r.dfs_order_visited
        ELSE IF r.path_found_to_target
        THEN LET path == PathBack(r.predecessors, start_node, target_node, <<>>)
             IN  IF (path = <<>> \/ path[1] # start_node)
                    /\ start_node = target_node
                 THEN <<Some(<<start_node>>), r.predecessors>>
                 ELSE <<Some(path), r.predecessors>>
        ELSE <<None, r.predecessors>>

dfs_call(g, start_node, target_node) ==
    IF ~Contains(g, start_node) THEN Raised("ValueError")
    ELSE IF target_node # NoNode /\ ~Contains(g, target_node)
    THEN Raised("ValueError")
    ELSE Returned(dfs(g, start_node, target_node))

\* Graph.neighbors and Graph.get_node_data as their caller sees them
neighbors_call(g, node_id) ==
    IF ~Contains(g, node_id) THEN Raised("ValueError")
    ELSE Returned(NeighborList(g, node_id))

get_node_data_call(g, node_id) ==
    IF ~Contains(g, node_id) THEN Raised("ValueError")
    ELSE Returned(get_node_data(g, node_id))

\* three nodes with data, and the edges a caller may add between them
PathBase ==
    add_node(add_node(add_node(Graph, "R1", RouterData), "R2", RouterData),
             "R3", RouterData)

PathEdges ==
    {<<u, v, w>> \in Routers \X Routers \X {0, WeightA, WeightB} : u # v}

\* the graphs that at most k add_edge calls make of PathBase
RECURSIVE PathGraphs(_)
PathGraphs(k) ==
    IF k = 0 THEN {PathBase}
    ELSE LET prev == PathGraphs(k - 1)
         IN prev \cup {add_edge(g, e[1], e[2], e[3]) :
                          g \in prev, e \in PathEdges}

StartNodes == {"R1", "R2", AbsentNode}
TargetNodes == Routers \cup {AbsentNode, NoNode}

InitPaths ==
    /\ lsdb = EmptyDict
    /\ topology_graph = None
    /\ routing_table = EmptyDict
    /\ op = "__init__"
    /\ arg = None
    /\ result = "None"
    /\ calls = <<>>
    /\ pc = "idle"
    /\ todo = {}
    /\ new_routing_table = EmptyDict
    /\ graphs_seen = {None}
    /\ readerRef = "none"
    /\ readerObj = EmptyDict
    /\ observed = None
    /\ graph \in PathGraphs(MaxEdges)
    /\ lsa_obj = None
    /\ router = None
    /\ same_object = {}

\* a call that reads the graph: its name, its arguments and what it gave
Query(name, args, res) ==
    /\ op = "__init__"
    /\ op' = name
    /\ arg' = args
    /\ result' = res
    /\ UNCHANGED <<areaVars, calls, stepVars, readerVars, libVars>>

Dijkstra(start_node, end_node) ==
    Query("dijkstra", <<start_node, end_node>>,
          dijkstra_call(graph, start_node, end_node))

Bfs(start_node, target_node) ==
    Query("bfs", <<start_node, target_node>>,
          bfs_call(graph, start_node, target_node))

Dfs(start_node, target_node) ==
    Query("dfs", <<start_node, target_node>>,
          dfs_call(graph, start_node, target_node))

Neighbors(node_id) ==
    Query("neighbors", <<node_id>>, neighbors_call(graph, node_id))

GetNodeData(node_id) ==
    Query("get_node_data", <<node_id>>, get_node_data_call(graph, node_id))

NextPaths ==
    \/ \E s \in StartNodes, e \in TargetNodes : Dijkstra(s, e)
    \/ \E s \in StartNodes, t \in TargetNodes : Bfs(s, t)
    \/ \E s \in StartNodes, t \in TargetNodes : Dfs(s, t)
    \/ \E n \in Routers \cup {AbsentNode} : Neighbors(n)
    \/ \E n \in Routers \cup {AbsentNode} : GetNodeData(n)

SpecPaths == InitPaths /\ [][NextPaths]_vars

\* C11: for every graph with non-negative weights and every start node s of
\* it, dijkstra(G, s) returns a distance map whose keys are exactly the nodes
\* reachable from s and whose values are the minimum path weights from s
\* (s itself at 0).
C11_DijkstraDistances ==
    (op = "dijkstra" /\ arg[2] = NoNode /\ Contains(graph, arg[1])) =>
        /\ result.exc = "None"
        /\ result.value[1] = ShortestDistance(graph, arg[1])
        /\ result.value[1][arg[1]] = 0

\* dijkstra has run from R1 on a graph where R2 is cheaper by way of R3 than
\* by the direct edge, so R2's first label was replaced
C11_Witness ==
    /\ op = "dijkstra" /\ arg = <<"R1", NoNode>>
    /\ HasEdge(graph, "R1", "R2")
    /\ "R2" \in DOMAIN result.value[1]
    /\ result.value[1]["R2"] < get_edge_weight(graph, "R1", "R2")
    /\ result.value[2]["R2"] = "R3"

\* the sum of the weights along a list of nodes
RECURSIVE PathWeight(_, _)
PathWeight(g, p) ==
    IF Len(p) < 2 THEN 0
    ELSE get_edge_weight(g, p[1], p[2]) + PathWeight(g, Tail(p))

IsPath(g, p, from, to) ==
    /\ p # <<>>
    /\ p[1] = from
    /\ p[Len(p)] = to
    /\ \A i \in 1..(Len(p) - 1) : HasEdge(g, p[i], p[i + 1])

UsesUnknownNode(g, name, args) ==
    IF name \in {"dijkstra", "bfs", "dfs"}
    THEN \/ ~Contains(g, args[1])
         \/ args[2] # NoNode /\ ~Contains(g, args[2])
    ELSE name \in {"neighbors", "get_node_data"} /\ ~Contains(g, args[1])

-----------------------------------------------------------------------------
(* graph_lib/graph.py: a Graph under add_node and add_edge calls            *)
(* (specification SpecGraph)                                                *)

\* get_edges_count: the lengths of the adjacency dicts, summed
RECURSIVE SumLengths(_, _)
SumLengths(adj, nodes) ==
    IF nodes = {} THEN 0
    ELSE LET n == CHOOSE x \in nodes : TRUE
         IN Cardinality(DOMAIN adj[n]) + SumLengths(adj, nodes \ {n})

get_edges_count(g) == SumLengths(g.adj, DOMAIN g.adj)

\* add_node as its caller sees it: the exception raised and the graph left
add_node_call(g, node_id, data) ==
    IF add_node_raises(g, node_id)
    THEN [exc |-> "ValueError", g |-> g]
    ELSE [exc |-> "None", g |-> add_node(g, node_id, data)]

\* the ordered pairs a caller joins: R1 with itself, R1 and R2 both ways,
\* and two more pairs
EdgePairs ==
    {<<"R1", "R1">>, <<"R1", "R2">>, <<"R2", "R1">>, <<"R2", "R3">>,
     <<"R3", "R1">>}

InitGraph ==
    /\ lsdb = EmptyDict
    /\ topology_graph = None
    /\ routing_table = EmptyDict
    /\ op = "__init__"
    /\ arg = None
    /\ result = "None"
    /\ calls = <<>>
    /\ pc = "idle"
    /\ todo = {}
    /\ new_routing_table = EmptyDict
    /\ graphs_seen = {None}
    /\ readerRef = "none"
    /\ readerObj = EmptyDict
    /\ observed = None
    /\ graph = Graph
    /\ lsa_obj = None
    /\ router = None
    /\ same_object = {}

AddNode(node_id, data) ==
    LET r == add_node_call(graph, node_id, data)
    IN  /\ graph' = r.g
        /\ op' = "add_node"
        /\ arg' = <<node_id, data>>
        /\ result' = IF r.exc = "None" THEN Returned(None) ELSE Raised(r.exc)
        /\ UNCHANGED <<areaVars, calls, stepVars, readerVars, lsa_obj, router, same_object>>

\* the graphs are kept to MaxEdges edges: the call comes when the pair has
\* an edge already or the graph has room for one more
AddEdge(u, v, weight) ==
    /\ HasEdge(graph, u, v) \/ get_edges_count(graph) < MaxEdges
    /\ graph' = add_edge(graph, u, v, weight)
    /\ op' = "add_edge"
    /\ arg' = <<u, v, weight>>
    /\ result' = Returned(None)
    /\ UNCHANGED <<areaVars, calls, stepVars, readerVars, lsa_obj, router, same_object>>

GetEdgesCount ==
    /\ op' = "get_edges_count"
    /\ arg' = None
    /\ result' = Returned(get_edges_count(graph))
    /\ UNCHANGED <<areaVars, calls, stepVars, readerVars, libVars>>

NextGraph ==
    \/ \E n \in Routers, data \in {NoData, RouterData} : AddNode(n, data)
    \/ \E e \in EdgePairs, w \in {WeightA, WeightB} : AddEdge(e[1], e[2], w)
    \/ GetEdgesCount

SpecGraph == InitGraph /\ [][NextGraph]_vars

\* the directed edges of a graph with their weights
EdgesOf(g) ==
    {<<u, v, g.adj[u][v]>> : <<u, v>> \in
        {p \in (DOMAIN g.adj) \X (DOMAIN g.nodes) :
            HasEdge(g, p[1], p[2])}}

\* C14: add_node with an identifier the graph already has, created by
\* add_node or by add_edge, raises, and the node set, the node's data and
\* all edges stay as they were.
C14_DuplicateNodeFails ==
    [][ (op' = "add_node" /\ Contains(graph, arg'[1])) =>
            /\ result' = Raised("ValueError")
            /\ graph' = graph ]_vars

\* add_node with data has failed on a node that add_edge created without
\* data and that has an edge
C14_Witness ==
    /\ op = "add_node"
    /\ result = Raised("ValueError")
    /\ arg[2] = RouterData
    /\ get_node_data(graph, arg[1]) = NoData
    /\ neighbors(graph, arg[1]) # {}

\* the ordered pairs that have an edge
EdgePairsOf(g) ==
    {p \in (DOMAIN g.nodes) \X (DOMAIN g.nodes) : HasEdge(g, p[1], p[2])}

\* C15: add_edge(u, v, w) creates u and v when absent, sets the weight of
\* (u, v) to w, and leaves every other edge and the data of the nodes that
\* existed as they were; get_edges_count is the number of distinct ordered
\* pairs with an edge, so adding a pair again does not raise it.
C15_AddEdgeUpserts ==
    [][ /\ op' = "add_edge" =>
              LET u == arg'[1]
                  v == arg'[2]
              IN  /\ result' = Returned(None)
                  /\ DOMAIN graph'.nodes = DOMAIN graph.nodes \cup {u, v}
                  /\ \A n \in DOMAIN graph.nodes :
                        graph'.nodes[n] = graph.nodes[n]
                  /\ \A n \in {u, v} \ DOMAIN graph.nodes :
                        graph'.nodes[n] = NoData
                  /\ HasEdge(graph', u, v)
                  /\ get_edge_weight(graph', u, v) = arg'[3]
                  /\ {e \in EdgesOf(graph') : <<e[1], e[2]>> # <<u, v>>}
                        = {e \in EdgesOf(graph) : <<e[1], e[2]>> # <<u, v>>}
                  /\ get_edges_count(graph')
                        = get_edges_count(graph)
                            + (IF HasEdge(graph, u, v) THEN 0 ELSE 1)
        /\ get_edges_count(graph') = Cardinality(EdgePairsOf(graph'))
        /\ op' = "get_edges_count" =>
              result' = Returned(Cardinality(EdgePairsOf(graph))) ]_vars

\* add_edge has joined R2, a node with data, to R3, a node it created, in a
\* graph that has another edge from R2
C15_Witness ==
    /\ op = "add_edge" /\ arg = <<"R2", "R3", WeightB>>
    /\ Contains(graph, "R1")
    /\ get_node_data(graph, "R2") = RouterData
    /\ get_node_data(graph, "R3") = NoData
    /\ HasEdge(graph, "R2", "R1")
    /\ get_edges_count(graph) = 2

-----------------------------------------------------------------------------
(* graph_lib/ospf.py: RouterLSA and NetworkLSA objects under construction   *)
(* and under add_link / add_attached_router (specification SpecLSA)         *)

\* the dataclass __init__: the fields as the caller passed them
LSAFields(kind, adv, length, links, attached) ==
    [kind |-> kind, ls_type |-> "ROUTER_LSA",
     link_state_id |-> "", advertising_router |-> adv,
     ls_sequence_number |-> 0, ls_age |-> 0, ls_checksum |-> 0,
     length |-> length, is_abr |-> FALSE, is_asbr |-> FALSE,
     links |-> links, network_mask |-> "", attached_routers |-> attached]

\* LSAHeader.__post_init__: a bare header without a length gets 20
LSAHeader_post_init(obj) ==
    IF obj.length = 0 /\ obj.kind = "LSAHeader"
    THEN [obj EXCEPT !.length = 20] ELSE obj

\* _calculate_length that keeps a length the object already has
RouterLSA_calculate_length_IfUnset(obj) ==
    IF obj.length # 0 THEN obj
    ELSE [obj EXCEPT !.length = 20 + 4 + 12 * Len(obj.links)]

\* RouterLSA._calculate_length
RouterLSA_calculate_length(obj) ==
    [obj EXCEPT !.length = 20 + (4 + 12 * Len(obj.links))]

\* NetworkLSA._calculate_length
NetworkLSA_calculate_length(obj) ==
    [obj EXCEPT !.length = 20 + (4 + Len(obj.attached_routers) * 4)]

RouterLSA_post_init(obj) ==
    LET o1 == LSAHeader_post_init(obj)
        o2 == [o1 EXCEPT !.ls_type = "ROUTER_LSA",
                         !.link_state_id =
                            IF @ = "" THEN o1.advertising_router ELSE @]
    IN RouterLSA_calculate_length(o2)

NetworkLSA_post_init(obj) ==
    LET o1 == LSAHeader_post_init(obj)
    IN NetworkLSA_calculate_length([o1 EXCEPT !.ls_type = "NETWORK_LSA"])

\* RouterLSA.add_link
add_link(obj, link) ==
    RouterLSA_calculate_length([obj EXCEPT !.links = Append(@, link)])

\* add_attached_router without its test
add_attached_router_Always(obj, router_id) ==
    NetworkLSA_calculate_length(
        [obj EXCEPT !.attached_routers = Append(@, router_id)])

\* NetworkLSA.add_attached_router
add_attached_router(obj, router_id) ==
    IF router_id \in Elements(obj.attached_routers) THEN obj
    ELSE NetworkLSA_calculate_length(
            [obj EXCEPT !.attached_routers = Append(@, router_id)])

\* the lists of at most k elements of S
RECURSIVE ListsUpTo(_, _)
ListsUpTo(S, k) ==
    IF k = 0 THEN {<<>>}
    ELSE LET prev == ListsUpTo(S, k - 1)
         IN prev \cup {Append(l, x) : l \in prev, x \in S}

SampleLinks == UNION {Elements(l) : l \in R2Links}
Lengths == {0, StaleLength}

\* an LSDB that stored a copy of the offered LSA
SeenThroughLsdb_Copy(db, same, obj) == db

\* the LSDB after the object stored under the keys of same has been
\* changed in place to obj: the dict holds the object, not a copy
SeenThroughLsdb(db, same, obj) ==
    [k \in DOMAIN db |-> IF k \in same THEN obj ELSE db[k]]

NewRouterLSA(length, links) ==
    /\ lsa_obj' = Some(RouterLSA_post_init(
                          LSAFields("RouterLSA", "R1", length, links, <<>>)))
    /\ op' = "RouterLSA"
    /\ arg' = <<length, links>>
    /\ result' = "None"
    /\ same_object' = {}          \* a new object, stored nowhere
    /\ UNCHANGED <<areaVars, calls, stepVars, readerVars, graph, router>>

NewNetworkLSA(length, attached) ==
    /\ lsa_obj' = Some(NetworkLSA_post_init(
                          [LSAFields("NetworkLSA", "R2", length, <<>>, attached)
                             EXCEPT !.link_state_id = SegIP,
                                    !.network_mask = SegMask]))
    /\ op' = "NetworkLSA"
    /\ arg' = <<length, attached>>
    /\ result' = "None"
    /\ same_object' = {}          \* a new object, stored nowhere
    /\ UNCHANGED <<areaVars, calls, stepVars, readerVars, graph, router>>

\* the lists are kept to MaxLinks elements
AddLink(link) ==
    /\ lsa_obj # None
    /\ lsa_obj[1].kind = "RouterLSA"
    /\ Len(lsa_obj[1].links) < MaxLinks
    /\ lsa_obj' = Some(add_link(lsa_obj[1], link))
    /\ op' = "add_link"
    /\ arg' = <<link>>
    /\ result' = "None"
    /\ lsdb' = SeenThroughLsdb(lsdb, same_object, lsa_obj'[1])
    /\ UNCHANGED <<topology_graph, routing_table, calls, stepVars,
                   readerVars, graph, router, same_object>>

AddAttachedRouter(router_id) ==
    /\ lsa_obj # None
    /\ lsa_obj[1].kind = "NetworkLSA"
    /\ \/ Len(lsa_obj[1].attached_routers) < MaxLinks
       \/ router_id \in Elements(lsa_obj[1].attached_routers)
    /\ lsa_obj' = Some(add_attached_router(lsa_obj[1], router_id))
    /\ op' = "add_attached_router"
    /\ arg' = <<router_id>>
    /\ result' = "None"
    /\ lsdb' = SeenThroughLsdb(lsdb, same_object, lsa_obj'[1])
    /\ UNCHANGED <<topology_graph, routing_table, calls, stepVars,
                   readerVars, graph, router, same_object>>

NextLSA ==
    \/ \E length \in Lengths, links \in ListsUpTo(SampleLinks, MaxLinks) :
          NewRouterLSA(length, links)
    \/ \E length \in Lengths, attached \in ListsUpTo(Routers, MaxLinks) :
          NewNetworkLSA(length, attached)
    \/ \E link \in SampleLinks : AddLink(link)
    \/ \E router_id \in Routers : AddAttachedRouter(router_id)

SpecLSA == Init /\ [][NextLSA]_vars

\* C16: a RouterLSA has length 20 + 4 + 12 * len(links) and a NetworkLSA
\* length 20 + 4 + 4 * len(attached_routers), right after construction,
\* whatever length and lists the caller passed, and after every add_link and
\* add_attached_router call.
C16_EncodedLength ==
    lsa_obj # None =>
        /\ lsa_obj[1].kind = "RouterLSA" =>
              lsa_obj[1].length = 20 + 4 + 12 * Len(lsa_obj[1].links)
        /\ lsa_obj[1].kind = "NetworkLSA" =>
              lsa_obj[1].length = 20 + 4 + 4 * Len(lsa_obj[1].attached_routers)

\* a router LSA was constructed with two links and a length of the
\* caller's, and carries the length of its two links
C16_Witness ==
    /\ op = "RouterLSA"
    /\ arg[1] = StaleLength
    /\ Len(lsa_obj[1].links) = 2
    /\ lsa_obj[1].length = 48

NoDuplicates(list) ==
    \A i, j \in 1..Len(list) : list[i] = list[j] => i = j

\* C17: add_attached_router with an identifier the list already has changes
\* nothing of the LSA; with a new one it appends it; a list without
\* repetitions, as that of an LSA constructed empty, stays without.
C17_AddAttachedRouterIdempotent ==
    [][ /\ op' = "add_attached_router" =>
              LET old == lsa_obj[1]
                  new == lsa_obj'[1]
              IN  /\ arg'[1] \in Elements(old.attached_routers) => new = old
                  /\ arg'[1] \notin Elements(old.attached_routers) =>
                        new.attached_routers
                          = Append(old.attached_routers, arg'[1])
                  /\ NoDuplicates(old.attached_routers)
                        => NoDuplicates(new.attached_routers)
        /\ (op' = "NetworkLSA" /\ arg'[2] = <<>>) =>
              lsa_obj'[1].attached_routers = <<>> ]_vars

\* add_attached_router was called with R1 on a list that has R1 before R2:
\* the call added nothing
C17_Witness ==
    /\ op = "add_attached_router" /\ arg = <<"R1">>
    /\ lsa_obj[1].attached_routers = <<"R1", "R2">>
    /\ lsa_obj[1].length = 32

-----------------------------------------------------------------------------
(* graph_lib/ospf.py: OSPFInterface, OSPFRouter and the origination of      *)
(* advertisements (specification SpecRouter)                                 *)

MaxCalls == 3

\* Python truthiness of an Optional[str] field
IsSet(x) == x \notin {NoNode, ""}

\* the dotted-quad texts that occur in the model and the octets
\* ipaddress reads from them; any other text is not an address
IPv4Texts ==
    ("10.0.0.0" :> <<10, 0, 0, 0>>) @@ ("10.0.0.1" :> <<10, 0, 0, 1>>)
    @@ ("10.0.0.2" :> <<10, 0, 0, 2>>) @@ ("10.0.1.0" :> <<10, 0, 1, 0>>)
    @@ ("10.0.1.1" :> <<10, 0, 1, 1>>) @@ ("10.0.1.2" :> <<10, 0, 1, 2>>)
    @@ ("192.168.1.0" :> <<192, 168, 1, 0>>)
    @@ ("192.168.1.77" :> <<192, 168, 1, 77>>)
    @@ ("1.1.1.1" :> <<1, 1, 1, 1>>)
    @@ ("255.255.255.0" :> <<255, 255, 255, 0>>)
    @@ ("255.255.255.252" :> <<255, 255, 255, 252>>)
    @@ ("255.255.255.255" :> <<255, 255, 255, 255>>)
    @@ ("255.0.255.0" :> <<255, 0, 255, 0>>)
    @@ ("0.0.0.255" :> <<0, 0, 0, 255>>)

ParseIPv4(text) ==
    IF text \in DOMAIN IPv4Texts THEN Some(IPv4Texts[text]) ELSE None

FormatIPv4(octets) ==
    CHOOSE text \in DOMAIN IPv4Texts : IPv4Texts[text] = octets

RECURSIVE BitAnd(_, _)
BitAnd(a, b) ==
    IF a = 0 \/ b = 0 THEN 0
    ELSE (a % 2) * (b % 2) + 2 * BitAnd(a \div 2, b \div 2)

\* the netmask of a prefix length, octet by octet
PrefixMask(p) ==
    [i \in 1..4 |->
        LET bits == IF p - 8 * (i - 1) < 0 THEN 0
                    ELSE IF p - 8 * (i - 1) > 8 THEN 8
                    ELSE p - 8 * (i - 1)
        IN 256 - 2 ^ (8 - bits)]

\* ipaddress takes a mask that is a netmask, or else a hostmask, and
\* raises ValueError for any other
MaskPrefix(octets) ==
    LET inverted == [i \in 1..4 |-> 255 - octets[i]]
    IN IF \E p \in 0..32 : PrefixMask(p) = octets
       THEN Some(CHOOSE p \in 0..32 : PrefixMask(p) = octets)
       ELSE IF \E p \in 0..32 : PrefixMask(p) = inverted
       THEN Some(CHOOSE p \in 0..32 : PrefixMask(p) = inverted)
       ELSE None

\* get_network_address that gives the address back
get_network_address_Unmasked(ip, mask) == ip

\* get_network_address: the address ANDed with the mask; "except
\* ValueError: return ip"
get_network_address(ip, mask) ==
    LET a == ParseIPv4(ip)
        m == ParseIPv4(mask)
    IN IF a = None \/ m = None THEN ip
       ELSE LET p == MaskPrefix(m[1])
            IN IF p = None THEN ip
               ELSE FormatIPv4([i \in 1..4 |->
                                   BitAnd(a[1][i], PrefixMask(p[1])[i])])

OSPFInterface(ip_address, network_mask, area_id, network_type, cost, current_ospf_state, neighbor_router_id, designated_router_ip_on_segment) ==
    [ip_address |-> ip_address, network_mask |-> network_mask,
     area_id |-> area_id, network_type |-> network_type, cost |-> cost,
     current_ospf_state |-> current_ospf_state,
     neighbor_router_id |-> neighbor_router_id,
     designated_router_ip_on_segment |-> designated_router_ip_on_segment]

OSPFRouter(router_id, is_abr, is_asbr) ==
    [router_id |-> router_id, is_abr |-> is_abr, is_asbr |-> is_asbr,
     interfaces |-> <<>>, generated_lsas |-> <<>>]

add_interface(rt, interface) ==
    [rt EXCEPT !.interfaces = Append(@, interface)]

\* "if iface.area_id != area_id or iface.current_ospf_state == DOWN:
\* continue"
Skipped(iface, area_id) ==
    iface.area_id # area_id \/ iface.current_ospf_state = "DOWN"

\* the links one pass of the loop appends for an interface it did not skip
LinksOfInterface(iface) ==
    IF iface.network_type = "POINT_TO_POINT"
    THEN IF IsSet(iface.neighbor_router_id)
         THEN <<RouterLSALink(iface.neighbor_router_id, iface.ip_address,
                              "POINT_TO_POINT", iface.cost)>>
         ELSE <<>>
    ELSE IF iface.network_type \in {"BROADCAST", "NBMA"}
    THEN IF IsSet(iface.designated_router_ip_on_segment)
         THEN <<RouterLSALink(iface.designated_router_ip_on_segment,
                              iface.ip_address, "TRANSIT_NETWORK",
                              iface.cost)>>
         ELSE <<RouterLSALink(get_network_address(iface.ip_address,
                                                  iface.network_mask),
                              iface.network_mask, "STUB_NETWORK",
                              iface.cost)>>
    ELSE IF iface.network_type = "LOOPBACK"
    THEN <<RouterLSALink(iface.ip_address, "255.255.255.255",
                         "STUB_NETWORK", iface.cost)>>
    ELSE <<>>

\* links_for_lsa after "for iface in self.interfaces"
RECURSIVE links_for_lsa(_, _)
links_for_lsa(interfaces, area_id) ==
    IF interfaces = <<>> THEN <<>>
    ELSE (IF Skipped(Head(interfaces), area_id) THEN <<>>
          ELSE LinksOfInterface(Head(interfaces)))
         \o links_for_lsa(Tail(interfaces), area_id)

\* originate_router_lsa that numbers its LSAs: the sequence number is the
\* count of the LSAs the router generated before
originate_router_lsa_NextSeq(rt, area_id) ==
    LET router_lsa ==
            RouterLSA_post_init(
                [LSAFields("RouterLSA", rt.router_id, 0,
                           links_for_lsa(rt.interfaces, area_id), <<>>)
                   EXCEPT !.link_state_id = rt.router_id,
                          !.is_abr = rt.is_abr,
                          !.is_asbr = rt.is_asbr,
                          !.ls_sequence_number = Len(rt.generated_lsas)])
    IN [router |-> [rt EXCEPT !.generated_lsas = Append(@, router_lsa)],
        value |-> Some(router_lsa)]

\* OSPFRouter.originate_router_lsa: the router afterwards and the value
\* returned
originate_router_lsa(rt, area_id) ==
    LET router_lsa ==
            RouterLSA_post_init(
                [LSAFields("RouterLSA", rt.router_id, 0,
                           links_for_lsa(rt.interfaces, area_id), <<>>)
                   EXCEPT !.link_state_id = rt.router_id,
                          !.is_abr = rt.is_abr,
                          !.is_asbr = rt.is_asbr])
    IN [router |-> [rt EXCEPT !.generated_lsas = Append(@, router_lsa)],
        value |-> Some(router_lsa)]

\* the orders in which list(set(...)) may give the elements of a set
Orders(S) ==
    {l \in [1..Cardinality(S) -> S] : Elements(l) = S}

\* the caller's list with the originator appended, as it stands
all_attached_rids_NoSet(attached_router_ids, router_id) ==
    {Append(attached_router_ids, router_id)}

\* the values "list(set(attached_router_ids + [self.router_id]))" may
\* have: the distinct identifiers in any order
all_attached_rids(attached_router_ids, router_id) ==
    Orders(Elements(Append(attached_router_ids, router_id)))

\* originate_network_lsa that tests the interface state only
originate_network_lsa_StateOnly(rt, dr_interface, attached_router_ids, order) ==
    IF dr_interface.current_ospf_state # "DR"
    THEN [router |-> rt, value |-> None]
    ELSE LET network_lsa ==
                 NetworkLSA_post_init(
                     [LSAFields("NetworkLSA", rt.router_id, 0, <<>>, order)
                        EXCEPT !.link_state_id = dr_interface.ip_address,
                               !.network_mask = dr_interface.network_mask])
         IN [router |-> [rt EXCEPT !.generated_lsas = Append(@, network_lsa)],
             value |-> Some(network_lsa)]

\* OSPFRouter.originate_network_lsa: the router afterwards and the value
\* returned; order is the order list(set(attached_router_ids +
\* [self.router_id])) came out in
originate_network_lsa(rt, dr_interface, attached_router_ids, order) ==
    IF \/ dr_interface.current_ospf_state # "DR"
       \/ dr_interface.network_type \notin {"BROADCAST", "NBMA"}
    THEN [router |-> rt, value |-> None]
    ELSE LET network_lsa ==
                 NetworkLSA_post_init(
                     [LSAFields("NetworkLSA", rt.router_id, 0, <<>>, order)
                        EXCEPT !.link_state_id = dr_interface.ip_address,
                               !.network_mask = dr_interface.network_mask])
         IN [router |-> [rt EXCEPT !.generated_lsas = Append(@, network_lsa)],
             value |-> Some(network_lsa)]

AreaIds == {"0.0.0.0", "0.0.0.1"}

\* interfaces of R1: point-to-point with and without a neighbour, a
\* segment with and without a designated router, R1 as designated router,
\* a loopback, a point-to-multipoint interface, an interface that is down
\* and one in another area
SampleInterfaces ==
    { OSPFInterface("10.0.1.1", "255.255.255.252", "0.0.0.0",
                    "POINT_TO_POINT", MetricA, "POINT_TO_POINT", "R2",
                    NoNode),
      OSPFInterface("10.0.1.1", "255.255.255.252", "0.0.0.0",
                    "POINT_TO_POINT", MetricA, "DR", NoNode, NoNode),
      OSPFInterface("10.0.0.1", SegMask, "0.0.0.0", "BROADCAST", MetricB,
                    "DR_OTHER", NoNode, SegIP),
      OSPFInterface("192.168.1.77", SegMask, "0.0.0.0", "BROADCAST",
                    MetricA, "DR", NoNode, NoNode),
      OSPFInterface(SegIP, SegMask, "0.0.0.0", "NBMA", MetricB, "DR",
                    NoNode, SegIP),
      OSPFInterface("1.1.1.1", "255.255.255.255", "0.0.0.0", "LOOPBACK",
                    MetricB, "LOOPBACK", NoNode, NoNode),
      OSPFInterface("10.0.1.1", SegMask, "0.0.0.0", "POINT_TO_MULTIPOINT",
                    MetricA, "POINT_TO_MULTIPOINT", "R2", NoNode),
      OSPFInterface("10.0.0.1", SegMask, "0.0.0.0", "BROADCAST", MetricB,
                    "DOWN", NoNode, SegIP),
      OSPFInterface("10.0.1.1", "255.255.255.252", "0.0.0.1",
                    "POINT_TO_POINT", MetricB, "POINT_TO_POINT", "R2",
                    NoNode) }

\* the interfaces a caller passes as dr_interface: the designated router
\* of a segment, a router that is not, and a point-to-point interface
\* left in state DR
DrInterfaces ==
    {iface \in SampleInterfaces :
        \/ iface.network_type = "NBMA"
        \/ iface.current_ospf_state = "DR_OTHER"
        \/ iface.network_type = "POINT_TO_POINT" /\ iface.current_ospf_state = "DR"}

\* the lists of router identifiers a caller passes: none, and the
\* originator with another router twice
SampleAttached == { <<>>, <<"R1", "R2", "R2">> }

InitRouter ==
    /\ lsdb = EmptyDict
    /\ topology_graph = None
    /\ routing_table = EmptyDict
    /\ op = "__init__"
    /\ arg = None
    /\ result = "None"
    /\ calls = <<>>
    /\ pc = "idle"
    /\ todo = {}
    /\ new_routing_table = EmptyDict
    /\ graphs_seen = {None}
    /\ readerRef = "none"
    /\ readerObj = EmptyDict
    /\ observed = None
    /\ graph = Graph
    /\ lsa_obj = None
    /\ router \in {OSPFRouter("R1", TRUE, FALSE), OSPFRouter("R1", FALSE, TRUE)}
    /\ same_object = {}

\* the calls that have lengthened a list of the router
Grown(rt) == Len(rt.interfaces) + Len(rt.generated_lsas)

\* the two lists are kept to MaxCalls elements together
AddInterface(interface) ==
    /\ Grown(router) < MaxCalls
    /\ router' = add_interface(router, interface)
    /\ op' = "add_interface"
    /\ arg' = <<interface>>
    /\ result' = "None"
    /\ UNCHANGED <<areaVars, calls, stepVars, readerVars, graph, lsa_obj, same_object>>

OriginateRouterLsa(area_id) ==
    LET r == originate_router_lsa(router, area_id)
    IN /\ Grown(router) < MaxCalls
       /\ router' = r.router
       /\ op' = "originate_router_lsa"
       /\ arg' = <<area_id>>
       /\ result' = r.value
       /\ UNCHANGED <<areaVars, calls, stepVars, readerVars, graph, lsa_obj, same_object>>

OriginateNetworkLsa(dr_interface, attached_router_ids) ==
    \E order \in all_attached_rids(attached_router_ids, router.router_id) :
        LET r == originate_network_lsa(router, dr_interface,
                                       attached_router_ids, order)
        IN /\ Grown(router) < MaxCalls
           /\ router' = r.router
           /\ op' = "originate_network_lsa"
           /\ arg' = <<dr_interface, attached_router_ids>>
           /\ result' = r.value
           /\ UNCHANGED <<areaVars, calls, stepVars, readerVars, graph,
                          lsa_obj, same_object>>

NextRouter ==
    \/ \E interface \in SampleInterfaces : AddInterface(interface)
    \/ \E area_id \in AreaIds : OriginateRouterLsa(area_id)
    \/ \E dr_interface \in DrInterfaces,
          attached_router_ids \in SampleAttached :
          OriginateNetworkLsa(dr_interface, attached_router_ids)

SpecRouter == InitRouter /\ [][NextRouter]_vars

-----------------------------------------------------------------------------
(* Claims about origination, under SpecRouter *)

\* the interfaces of the router that are in the area and not DOWN, in
\* interface order
ActiveInterfaces(rt, area_id) ==
    SelectSeq(rt.interfaces,
              LAMBDA iface : /\ iface.area_id = area_id
                             /\ iface.current_ospf_state # "DOWN")

\* C18: the LSA that originate_router_lsa(area) returns has exactly one
\* link for every interface whose area matches and whose state is not
\* DOWN and none for any other: as many links as such interfaces, the
\* i-th link being the link of the i-th such interface.
C18_OneLinkPerActiveInterface ==
    op = "originate_router_lsa" =>
        LET active == ActiveInterfaces(router, arg[1])
            links == result[1].links
        IN /\ Len(links) = Len(active)
           /\ \A i \in 1..Len(links) :
                 i <= Len(active) => <<links[i]>> = LinksOfInterface(active[i])

\* the network an address lies in under a netmask: every octet rounded
\* down to a multiple of the block the mask octet leaves open
NetworkOf(ip, mask) ==
    LET a == IPv4Texts[ip]
        m == IPv4Texts[mask]
    IN FormatIPv4([i \in 1..4 |-> a[i] - (a[i] % (256 - m[i]))])

\* the link the interface list of the router explains for one interface
ExpectedLink(iface) ==
    IF iface.network_type = "POINT_TO_POINT" /\ iface.neighbor_router_id # NoNode
    THEN {[link_type |-> "POINT_TO_POINT",
           link_id |-> iface.neighbor_router_id,
           link_data |-> iface.ip_address, metric |-> iface.cost]}
    ELSE IF /\ iface.network_type \in {"BROADCAST", "NBMA"}
            /\ iface.designated_router_ip_on_segment # NoNode
    THEN {[link_type |-> "TRANSIT_NETWORK",
           link_id |-> iface.designated_router_ip_on_segment,
           link_data |-> iface.ip_address, metric |-> iface.cost]}
    ELSE IF iface.network_type \in {"BROADCAST", "NBMA"}
    THEN {[link_type |-> "STUB_NETWORK",
           link_id |-> NetworkOf(iface.ip_address, iface.network_mask),
           link_data |-> iface.network_mask, metric |-> iface.cost]}
    ELSE IF iface.network_type = "LOOPBACK"
    THEN {[link_type |-> "STUB_NETWORK", link_id |-> iface.ip_address,
           link_data |-> "255.255.255.255", metric |-> iface.cost]}
    ELSE {}

RECURSIVE ExpectedLinks(_)
ExpectedLinks(interfaces) ==
    IF interfaces = <<>> THEN {}
    ELSE ExpectedLink(Head(interfaces)) \cup ExpectedLinks(Tail(interfaces))

C21_AttachedExactlyOnce ==
    (op = "originate_network_lsa" /\ result # None) =>
        LET ids == Elements(arg[2]) \cup {router.router_id}
            attached == result[1].attached_routers
        IN /\ Elements(attached) = ids
           /\ NoDuplicates(attached)
           /\ result[1].length = 24 + 4 * Cardinality(ids)

\* the caller passed the originator and another router twice: two
\* identifiers, length 32
C21_Witness ==
    /\ op = "originate_network_lsa"
    /\ arg[2] = <<"R1", "R2", "R2">>
    /\ result # None
    /\ Len(result[1].attached_routers) = 2
    /\ result[1].length = 32

-----------------------------------------------------------------------------
(* graph_lib/algorithms.py: bfs and dfs on graphs with cycles, self-loops    *)
(* and every insertion order of the edges (specification SpecTraversal)      *)

\* the edges a caller may add to the four nodes of BaseGraph: a self-loop,
\* a two-node cycle, a cycle through the pseudo-node, forks and joins
TraversalEdges ==
    { <<"R1", "R1">>, <<"R1", "R2">>, <<"R1", "R3">>, <<"R2", "R1">>,
      <<"R2", "R3">>, <<"R2", PseudoNodeId(SegIP)>>,
      <<"R3", PseudoNodeId(SegIP)>>, <<PseudoNodeId(SegIP), "R1">> }

\* the graphs that at most k add_edge calls make of BaseGraph, the order of
\* the calls being the order of each node's neighbours
RECURSIVE TraversalGraphs(_)
TraversalGraphs(k) ==
    IF k = 0 THEN {BaseGraph}
    ELSE LET prev == TraversalGraphs(k - 1)
         IN prev \cup {add_edge(g, e[1], e[2], WeightA) :
                          g \in prev, e \in TraversalEdges}

InitTraversal ==
    /\ lsdb = EmptyDict
    /\ topology_graph = None
    /\ routing_table = EmptyDict
    /\ op = "__init__"
    /\ arg = None
    /\ result = "None"
    /\ calls = <<>>
    /\ pc = "idle"
    /\ todo = {}
    /\ new_routing_table = EmptyDict
    /\ graphs_seen = {None}
    /\ readerRef = "none"
    /\ readerObj = EmptyDict
    /\ observed = None
    /\ graph \in TraversalGraphs(MaxEdges)
    /\ lsa_obj = None
    /\ router = None
    /\ same_object = {}

NextTraversal ==
    \E start_node \in {"R1", "R2"},
       target_node \in get_all_nodes(BaseGraph) \cup {NoNode} :
        \/ Bfs(start_node, target_node)
        \/ Dfs(start_node, target_node)

SpecTraversal == InitTraversal /\ [][NextTraversal]_vars

\* the nodes that at most k edges lead to from s
RECURSIVE HopsWithin(_, _, _)
HopsWithin(g, s, k) ==
    IF k = 0 THEN {s}
    ELSE LET prev == HopsWithin(g, s, k - 1)
         IN prev \cup UNION {neighbors(g, n) : n \in prev}

Reachable(g, s) == HopsWithin(g, s, GraphLen(g))

\* the least number of edges of a path from s to t
HopDistance(g, s, t) ==
    CHOOSE k \in 0..GraphLen(g) :
        /\ t \in HopsWithin(g, s, k)
        /\ k = 0 \/ t \notin HopsWithin(g, s, k - 1)

\* C22: for start s and target t, both nodes of the graph, bfs(G, s, t)
\* returns the path None exactly when t is unreachable from s; otherwise
\* the path starts at s, ends at t, every consecutive pair is an edge of
\* G and no path from s to t has fewer edges; for t = s the path is [s];
\* and the returned predecessor map gives for each node of the path the
\* node before it.
C22_BfsTarget ==
    (/\ op = "bfs" /\ arg[2] # NoNode
     /\ Contains(graph, arg[1]) /\ Contains(graph, arg[2])) =>
        LET path == result.value[1]
            predecessors == result.value[2]
        IN  /\ result.exc = "None"
            /\ (path = None) <=> (arg[2] \notin Reachable(graph, arg[1]))
            /\ arg[2] \in Reachable(graph, arg[1]) =>
                  /\ IsPath(graph, path[1], arg[1], arg[2])
                  /\ Len(path[1]) - 1 = HopDistance(graph, arg[1], arg[2])
                  /\ \A i \in 1..(Len(path[1]) - 1) :
                        predecessors[path[1][i + 1]] = path[1][i]
            /\ arg[2] = arg[1] => path = Some(<<arg[1]>>)

\* bfs has found the one-edge path from R1 to R3 on a graph where R1's
\* first neighbour R2 leads to R3 as well
C22_Witness ==
    /\ op = "bfs" /\ arg = <<"R1", "R3">>
    /\ NeighborList(graph, "R1") = <<"R2", "R3">>
    /\ HasEdge(graph, "R2", "R3")
    /\ result.value[1] = Some(<<"R1", "R3">>)
    /\ result.value[2]["R3"] = "R1"

\* the pre-order of the recursive depth-first search that goes through
\* each node's neighbours in their listed order
RECURSIVE Visit(_, _, _), VisitAll(_, _, _)
Visit(g, n, seen) ==
    IF n \in Elements(seen) THEN seen
    ELSE VisitAll(g, NeighborList(g, n), Append(seen, n))

VisitAll(g, list, seen) ==
    IF list = <<>> THEN seen
    ELSE VisitAll(g, Tail(list), Visit(g, Head(list), seen))

\* C23: dfs without a target returns every node reachable from the start
\* exactly once, the start first, no unreachable node, in the pre-order of
\* the recursive depth-first search that explores each node's neighbours
\* in insertion order, on graphs with cycles and self-loops too.
C23_DfsPreorder ==
    (op = "dfs" /\ arg[2] = NoNode /\ Contains(graph, arg[1])) =>
        /\ result.exc = "None"
        /\ result.value = Visit(graph, arg[1], <<>>)
        /\ Elements(result.value) = Reachable(graph, arg[1])
        /\ NoDuplicates(result.value)
        /\ result.value[1] = arg[1]

\* dfs from R1 went down to the pseudo-node behind its first neighbour
\* before it took the second neighbour, the one whose edge was added first
\* of the two
C23_Witness ==
    /\ op = "dfs" /\ arg = <<"R1", NoNode>>
    /\ NeighborList(graph, "R1") = <<"R3", "R2">>
    /\ result.value = <<"R1", "R3", PseudoNodeId(SegIP), "R2">>

\* C30: bfs without a target returns every node reachable from the start
\* exactly once, the start first, no unreachable node, in non-decreasing
\* order of the number of edges from the start, on graphs with cycles and
\* self-loops too.
C30_BfsLevelOrder ==
    (op = "bfs" /\ arg[2] = NoNode /\ Contains(graph, arg[1])) =>
        /\ result.exc = "None"
        /\ Elements(result.value) = Reachable(graph, arg[1])
        /\ NoDuplicates(result.value)
        /\ result.value[1] = arg[1]
        /\ \A i, j \in 1..Len(result.value) :
              i < j => HopDistance(graph, arg[1], result.value[i])
                          <= HopDistance(graph, arg[1], result.value[j])

\* bfs from R1 on a graph with a self-loop at R1 and a cycle back from R2
\* has listed R1 once and both neighbours after it
C30_Witness ==
    /\ op = "bfs" /\ arg = <<"R1", NoNode>>
    /\ HasEdge(graph, "R1", "R1") /\ HasEdge(graph, "R2", "R1")
    /\ result.value = <<"R1", "R2">>

-----------------------------------------------------------------------------
(* Claims about the rebuilt topology graph (specification Spec) *)

\* the call that has just returned is one that rebuilds the graph
RebuildCalled ==
    \/ IsAdd /\ result # "False"
    \/ op = "build_area_topology_from_lsdb"

\* the links of a type in the router LSAs of the LSDB, each with its
\* originator
LinksOfType(link_type) ==
    UNION {{<<k[3], lsdb[k].links[i]>> : i \in
               {j \in 1..Len(lsdb[k].links) :
                   lsdb[k].links[j].link_type = link_type}} :
           k \in {x \in DOMAIN lsdb : lsdb[x].kind = "RouterLSA"}}

NetworkLSAKeys == {k \in DOMAIN lsdb : lsdb[k].kind = "NetworkLSA"}

\* the area's graph has the edge with the weight
EdgeWeighs(u, v, weight) ==
    /\ topology_graph # None
    /\ HasEdge(topology_graph[1], u, v)
    /\ get_edge_weight(topology_graph[1], u, v) = weight

\* C24: after a rebuild, for every transit-network link of every router
\* LSA in the LSDB the topology graph has the edge from the originator to
\* the pseudo-node named after the link id, weighted with the link metric.
C24_TransitEdges ==
    RebuildCalled =>
        \A l \in LinksOfType("TRANSIT_NETWORK") :
            EdgeWeighs(l[1], PseudoNodeId(l[2].link_id), l[2].metric)

\* C25: after a rebuild, for every network LSA in the LSDB and every
\* router it lists the topology graph has the edge from the pseudo-node
\* to that router with weight 0, and an edge from an attached router to
\* the pseudo-node only where that router's LSA has a transit link to the
\* segment, weighted with the link metric.
C25_NetworkLsaEdges ==
    RebuildCalled =>
        \A k \in NetworkLSAKeys :
            \A rid \in Elements(lsdb[k].attached_routers) :
                /\ EdgeWeighs(PseudoNodeId(k[2]), rid, 0)
                /\ HasEdge(topology_graph[1], rid, PseudoNodeId(k[2])) =>
                      \E l \in LinksOfType("TRANSIT_NETWORK") :
                          /\ l[1] = rid
                          /\ l[2].link_id = k[2]
                          /\ EdgeWeighs(rid, PseudoNodeId(k[2]), l[2].metric)

\* C26: after a rebuild, for every point-to-point link of every router
\* LSA in the LSDB whose neighbour is a node tagged as a router the
\* topology graph has the edge from the originator to the neighbour,
\* weighted with the link metric; a stub-network or virtual link makes no
\* edge and no node.
C26_PointToPointEdges ==
    RebuildCalled =>
        /\ \A l \in LinksOfType("POINT_TO_POINT") :
              /\ topology_graph # None
              /\ (/\ Contains(topology_graph[1], l[2].link_id)
                  /\ get_node_data(topology_graph[1], l[2].link_id).type
                        = "router")
                    => EdgeWeighs(l[1], l[2].link_id, l[2].metric)
        /\ \A l \in LinksOfType("STUB_NETWORK") \cup LinksOfType("VIRTUAL_LINK") :
              /\ topology_graph # None
              /\ ~Contains(topology_graph[1], l[2].link_id)
              /\ ~Contains(topology_graph[1], PseudoNodeId(l[2].link_id))

\* the routers the LSDB knows through an advertisement: its originators
\* and the routers its network LSAs list
KnownRouters ==
    {k[3] : k \in DOMAIN lsdb}
    \cup UNION {Elements(lsdb[k].attached_routers) : k \in NetworkLSAKeys}

\* C27: after a rebuild, a point-to-point link to a neighbour that has
\* originated nothing in the LSDB and that no network LSA lists leaves the
\* rebuilt graph without that neighbour as a node and without an edge to
\* it.
C27_DanglingPointToPoint ==
    RebuildCalled =>
        \A l \in LinksOfType("POINT_TO_POINT") :
            l[2].link_id \notin KnownRouters =>
                /\ topology_graph # None
                /\ ~Contains(topology_graph[1], l[2].link_id)
                /\ \A u \in get_all_nodes(topology_graph[1]) :
                      ~HasEdge(topology_graph[1], u, l[2].link_id)

\* C28: after a rebuild the nodes of the topology graph are exactly the
\* advertising router of every LSDB entry, every point-to-point neighbour
\* of every router LSA and every attached router of every network LSA,
\* each tagged as a router, and one pseudo-node per network-LSA link-state
\* id, named after it and tagged as a pseudo-node.
C28_NodeSet ==
    RebuildCalled =>
        LET routers == KnownRouters
                       \cup {l[2].link_id : l \in LinksOfType("POINT_TO_POINT")}
            pseudo_nodes == {PseudoNodeId(k[2]) : k \in NetworkLSAKeys}
        IN  /\ topology_graph # None
            /\ get_all_nodes(topology_graph[1]) = routers \cup pseudo_nodes
            /\ \A n \in routers :
                  get_node_data(topology_graph[1], n).type = "router"
            /\ \A n \in pseudo_nodes :
                  get_node_data(topology_graph[1], n).type = "pseudo_node"

-----------------------------------------------------------------------------
(* The rows of the routing table (specification SpecSPF) *)

NodesTagged(g, type) == {n \in get_all_nodes(g) : get_node_data(g, n).type = type}

\* C29: after recalculate_spf on a non-empty topology graph routing_table
\* has a row for exactly the nodes tagged as routers; a pseudo-node is
\* never a source row but is a destination wherever it is reachable; and
\* the destinations of row r are exactly the nodes reachable from r, r
\* itself included.
C29_RowsAndDestinations ==
    (/\ SpfHasRun /\ topology_graph # None
     /\ get_all_nodes(topology_graph[1]) # {}) =>
        /\ DOMAIN routing_table = NodesTagged(topology_graph[1], "router")
        /\ \A p \in NodesTagged(topology_graph[1], "pseudo_node") :
              /\ p \notin DOMAIN routing_table
              /\ \A r \in DOMAIN routing_table :
                    p \in Reachable(topology_graph[1], r)
                        => p \in DOMAIN routing_table[r]
        /\ \A r \in DOMAIN routing_table :
              /\ r \in DOMAIN routing_table[r]
              /\ DOMAIN routing_table[r] = Reachable(topology_graph[1], r)

\* SPF has run on a graph where R1 reaches the pseudo-node and R2 behind
\* it but not R3: the pseudo-node is a destination of R1's row and no row
C29_Witness ==
    /\ op = "recalculate_spf"
    /\ topology_graph # None
    /\ HasEdge(topology_graph[1], "R1", PseudoNodeId(SegIP))
    /\ HasEdge(topology_graph[1], PseudoNodeId(SegIP), "R2")
    /\ DOMAIN routing_table = {"R1", "R2", "R3"}
    /\ DOMAIN routing_table["R1"] = {"R1", PseudoNodeId(SegIP), "R2"}
    /\ DOMAIN routing_table["R3"] = {"R3"}

-----------------------------------------------------------------------------
(* Further claims about the LSDB (specification Spec) *)

-----------------------------------------------------------------------------
(* The walk along the predecessors (specification SpecSPF) *)

\* dest, predecessors[dest], ... up to the first None, cut off after fuel
\* nodes
RECURSIVE PredecessorChain(_, _, _)
PredecessorChain(predecessors, x, fuel) ==
    IF x = NoNode \/ fuel = 0 THEN <<>>
    ELSE <<x>> \o PredecessorChain(predecessors, PredGet(predecessors, x),
                                   fuel - 1)

\* the number of times the body of the while loop of the next-hop
\* derivation runs, counted up to fuel
RECURSIVE WalkSteps(_, _, _, _)
WalkSteps(predecessors, source, prev, fuel) ==
    IF fuel > 0 /\ prev # NoNode /\ PredGet(predecessors, prev) # source
    THEN 1 + WalkSteps(predecessors, source, PredGet(predecessors, prev),
                       fuel - 1)
    ELSE 0

\* C32: for every router-tagged source and every destination dijkstra
\* reports, the predecessor chain of the destination names no node twice and
\* ends at the source, and the walk that derives the next hop takes at most
\* (number of nodes) steps, zero-weight pseudo-node edges included.
C32_PredecessorsAcyclic ==
    (SpfHasRun /\ topology_graph # None) =>
        LET g == topology_graph[1]
            N == GraphLen(g)
        IN  \A r \in RouterNodes(g) :
              LET dj == dijkstra(g, r)
              IN  \A d \in DOMAIN dj.distances :
                    LET chain == PredecessorChain(dj.predecessors, d, N + 1)
                    IN  /\ Len(chain) <= N
                        /\ \A i, j \in 1..Len(chain) :
                              chain[i] = chain[j] => i = j
                        /\ chain[Len(chain)] = r
                        /\ WalkSteps(dj.predecessors, r,
                                     PredGet(dj.predecessors, d), N + 1) <= N

\* SPF has run on a graph where the chain of a destination of R1 passes the
\* pseudo-node over its zero-weight edge and the walk takes a step
C32_Witness ==
    /\ op = "recalculate_spf"
    /\ topology_graph # None
    /\ LET g == topology_graph[1]
           dj == dijkstra(g, "R1")
       IN  \E d \in DOMAIN dj.distances :
             /\ HasRoute("R1", d)
             /\ PredGet(dj.predecessors, d) = PseudoNodeId(SegIP)
             /\ get_edge_weight(g, PseudoNodeId(SegIP), d) = 0
             /\ \E e \in DOMAIN dj.distances :
                   /\ PredGet(dj.predecessors, e) = d
                   /\ WalkSteps(dj.predecessors, "R1", d, GraphLen(g)) >= 1

-----------------------------------------------------------------------------
(* Equal sequence numbers, MaxAge and the lifetime of entries
   (specification Spec) *)

\* the offered LSA and the entry stored under its key have one sequence
\* number, and exactly one of the two is at MaxAge
MaxAgeFlip(db, lsa) ==
    /\ LsaKey(lsa) \in DOMAIN db
    /\ lsa.ls_sequence_number = db[LsaKey(lsa)].ls_sequence_number
    /\ (lsa.ls_age = LSMaxAge) # (db[LsaKey(lsa)].ls_age = LSMaxAge)

\* C33: at one key and one sequence number an instance at age 3600 replaces
\* a stored younger one and a younger one replaces a stored instance at age
\* 3600; every such delivery is accepted and sets off a rebuild and an SPF
\* run.
C33_MaxAgeAlternation ==
    [][ (op' = "add_lsa_to_lsdb" /\ MaxAgeFlip(lsdb, arg'[1]))
        => /\ lsdb' = LsdbSet(lsdb, LsaKey(arg'[1]), arg'[1])
           /\ result' = "True"
           /\ calls' = <<"build_area_topology_from_lsdb",
                         "build_ospf_graph_from_lsdb",
                         "recalculate_spf">> ]_vars

\* what the two passes draw from one LSA is in graph tg and table rt: the
\* originator (or the pseudo-node) as a node with a row of its own, and the
\* edge of each point-to-point and transit link
Contributes(lsa, tg, rt) ==
    /\ tg # None
    /\ IF lsa.kind = "RouterLSA"
       THEN /\ Contains(tg[1], lsa.advertising_router)
            /\ lsa.advertising_router \in DOMAIN rt
            /\ \A i \in 1..Len(lsa.links) :
                  LET l == lsa.links[i]
                  IN  /\ l.link_type = "POINT_TO_POINT"
                         => HasEdge(tg[1], lsa.advertising_router, l.link_id)
                      /\ l.link_type = "TRANSIT_NETWORK"
                         => HasEdge(tg[1], lsa.advertising_router,
                                    PseudoNodeId(l.link_id))
       ELSE /\ Contains(tg[1], PseudoNodeId(lsa.link_state_id))
            /\ \A i \in 1..Len(lsa.attached_routers) :
                  HasEdge(tg[1], PseudoNodeId(lsa.link_state_id),
                          lsa.attached_routers[i])

\* C34: no call removes a key from the LSDB, and after every call that
\* rebuilds, each stored LSA at age 3600 has its nodes and edges in the
\* topology graph and its originator in the routing table.
C34_EntriesAreKept ==
    [][ /\ DOMAIN lsdb \subseteq DOMAIN lsdb'
        /\ RebuildCalled' =>
              \A k \in DOMAIN lsdb' :
                  lsdb'[k].ls_age = LSMaxAge
                     => Contributes(lsdb'[k], topology_graph', routing_table')
      ]_vars

\* the LSAs a database holds
Stored(db) == {db[k] : k \in DOMAIN db}

\* two LSAs agree in type, link-state id and advertising router
SameKey(a, b) ==
    /\ a.ls_type = b.ls_type
    /\ a.link_state_id = b.link_state_id
    /\ a.advertising_router = b.advertising_router

\* C35: add_lsa_to_lsdb(L) leaves every entry whose type, link-state id or
\* advertising router differs from L's under its key with its content, adds
\* no key but L's, and stores L beside the others when nothing was stored
\* under its three components.
C35_KeyIndependence ==
    [][ op' = "add_lsa_to_lsdb" =>
          LET L == arg'[1]
          IN  /\ \A k \in DOMAIN lsdb :
                    ~SameKey(lsdb[k], L)
                       => k \in DOMAIN lsdb' /\ lsdb'[k] = lsdb[k]
              /\ \A k \in DOMAIN lsdb' \ DOMAIN lsdb : lsdb'[k] = L
              /\ {x \in Stored(lsdb') : ~SameKey(x, L)}
                    = {x \in Stored(lsdb) : ~SameKey(x, L)}
              /\ (\A x \in Stored(lsdb) : ~SameKey(x, L))
                    => /\ L \in Stored(lsdb')
                       /\ Cardinality(DOMAIN lsdb')
                             = Cardinality(DOMAIN lsdb) + 1 ]_vars

\* the network LSA R2 originates for the segment has just been stored beside
\* R2's own router LSA
C35_Witness ==
    /\ IsAdd /\ arg = Some(SegNetworkLSA)
    /\ LsdbGet(lsdb, LsaKey(SegNetworkLSA)) = Some(SegNetworkLSA)
    /\ \E l \in R2Links :
          LsdbGet(lsdb, <<"ROUTER_LSA", "R2", "R2">>)
             = Some(RouterLSA("R2", 0, AgeYoung, 0, l))
    /\ SegNetworkLSA.advertising_router = "R2"

-----------------------------------------------------------------------------
(* The shape of a Graph (specification SpecGraph) *)

\* the nodes are the keys of the adjacency structure and every edge runs
\* between nodes
WellFormed(g) ==
    /\ DOMAIN g.nodes = DOMAIN g.adj
    /\ \A u \in DOMAIN g.adj : DOMAIN g.adj[u] \subseteq DOMAIN g.nodes

\* C36: after any sequence of add_node and add_edge calls, failing add_node
\* calls included, the node set is the key set of the adjacency structure,
\* both endpoints of every edge are nodes, and no call lowers the node count.
C36_GraphWellFormed ==
    /\ WellFormed(graph)
    /\ [][ WellFormed(graph') /\ GraphLen(graph') >= GraphLen(graph) ]_vars

\* an add_node call has just failed on a graph that holds an edge to a node
\* add_edge created
C36_Witness ==
    /\ op = "add_node" /\ result = Raised("ValueError")
    /\ \E u, v \in DOMAIN graph.nodes :
          /\ u # v
          /\ HasEdge(graph, u, v)
          /\ get_node_data(graph, v) = NoData
          /\ arg[1] = v

-----------------------------------------------------------------------------
(* A router that offers the LSAs it originates to its area
   (specification SpecReoriginate) *)

OwnArea == "0.0.0.0"

\* the interfaces the router is given: its loopback, the point-to-point
\* interface to R2 and the segment on which it is designated router
OwnInterfaces ==
    {iface \in SampleInterfaces :
        /\ iface.area_id = OwnArea
        /\ \/ iface.network_type \in {"LOOPBACK", "NBMA"}
           \/ /\ iface.network_type = "POINT_TO_POINT"
              /\ iface.current_ospf_state = "POINT_TO_POINT"}

\* area.add_lsa_to_lsdb(router.generated_lsas[i])
OfferGenerated(i) == AddLsaToLsdb(router.generated_lsas[i])

InitReoriginate ==
    /\ lsdb = EmptyDict
    /\ topology_graph = None
    /\ routing_table = EmptyDict
    /\ op = "__init__"
    /\ arg = None
    /\ result = "None"
    /\ calls = <<>>
    /\ pc = "idle"
    /\ todo = {}
    /\ new_routing_table = EmptyDict
    /\ graphs_seen = {None}
    /\ readerRef = "none"
    /\ readerObj = EmptyDict
    /\ observed = None
    /\ graph = Graph
    /\ lsa_obj = None
    /\ router = OSPFRouter("R1", FALSE, FALSE)
    /\ same_object = {}

NextReoriginate ==
    \/ \E interface \in OwnInterfaces : AddInterface(interface)
    \/ OriginateRouterLsa(OwnArea)
    \/ \E dr_interface \in OwnInterfaces,
          attached_router_ids \in SampleAttached :
          OriginateNetworkLsa(dr_interface, attached_router_ids)
    \/ \E i \in 1..Len(router.generated_lsas) : OfferGenerated(i)

SpecReoriginate == InitReoriginate /\ [][NextReoriginate]_vars

-----------------------------------------------------------------------------
(* A caller that builds an LSA, offers it to the area and goes on changing
   it (specification SpecAlias) *)

\* the links the caller adds: a stub network and two point-to-point links
\* to R2 with different metrics
AliasLinks ==
    { RouterLSALink("192.168.2.0", SegMask, "STUB_NETWORK", MetricB),
      RouterLSALink("R2", "10.0.1.1", "POINT_TO_POINT", MetricA),
      RouterLSALink("R2", "10.0.1.5", "POINT_TO_POINT", MetricB) }

\* area.add_lsa_to_lsdb(lsa_obj): where the call stores, self.lsdb[lsa_key]
\* is the caller's object
OfferObject ==
    /\ lsa_obj # None
    /\ LET r == add_lsa_to_lsdb(lsdb, topology_graph, routing_table,
                                lsa_obj[1])
       IN  /\ lsdb' = r.lsdb
           /\ topology_graph' = r.topology_graph
           /\ routing_table' = r.routing_table
           /\ op' = "add_lsa_to_lsdb"
           /\ arg' = lsa_obj
           /\ result' = r.result
           /\ calls' = r.calls
           /\ same_object' = IF r.result = "False" THEN same_object
                             ELSE same_object \cup {LsaKey(lsa_obj[1])}
    /\ UNCHANGED <<graph, lsa_obj, router>>
    /\ UNCHANGED <<stepVars, readerVars>>

\* the caller constructs one LSA, of either class, and keeps to it
NextAlias ==
    \/ lsa_obj = None /\ NewRouterLSA(0, <<>>)
    \/ lsa_obj = None /\ NewNetworkLSA(0, <<>>)
    \/ \E link \in AliasLinks : AddLink(link)
    \/ \E router_id \in Routers : AddAttachedRouter(router_id)
    \/ OfferObject

SpecAlias == Init /\ [][NextAlias]_vars

\* the call has just changed the content of the caller's object, which is
\* stored in the LSDB
StoredObjectChanges ==
    /\ op' \in {"add_link", "add_attached_router"}
    /\ same_object # {}
    /\ lsa_obj' # lsa_obj

\* what the call leaves: the changed object under its key, the graph and
\* the table as they were
ChangedInPlace ==
    /\ \A k \in same_object : lsdb'[k] = lsa_obj'[1]
    /\ DOMAIN lsdb' = DOMAIN lsdb
    /\ topology_graph' = topology_graph
    /\ routing_table' = routing_table

\* the stored object offered again is turned down and nothing is rebuilt
OfferedAgainRejected ==
    (op' = "add_lsa_to_lsdb" /\ same_object # {})
       => /\ result' = "False"
          /\ calls' = <<>>
          /\ UNCHANGED areaVars

DrawsEdge(link) == link.link_type \in {"POINT_TO_POINT", "TRANSIT_NETWORK"}

LinksTo(lsa, n) ==
    {i \in 1..Len(lsa.links) :
        /\ lsa.links[i].link_type = "POINT_TO_POINT"
        /\ lsa.links[i].link_id = n}

Largest(S) == CHOOSE x \in S : \A y \in S : y <= x

\* C39: after the area accepted a router LSA with several point-to-point
\* links of different metrics to one neighbour, the topology graph has the
\* edge originator -> neighbour weighing the metric of the last of these
\* links, and the table prices the neighbour at that weight.
C39_ParallelLinksLastWins ==
    (IsAdd /\ result # "False" /\ arg[1].kind = "RouterLSA") =>
        \A n \in Routers :
            LET at == LinksTo(arg[1], n)
                orig == arg[1].advertising_router
            IN  (\E i, j \in at : arg[1].links[i].metric # arg[1].links[j].metric)
                   => /\ EdgeWeighs(orig, n, arg[1].links[Largest(at)].metric)
                      /\ HasRoute(orig, n)
                      /\ routing_table[orig][n].cost
                            = arg[1].links[Largest(at)].metric

====
